---- MODULE Spec2Model ----
(***************************************************************************)
(* A model of the node-irc Client (src/src/irc.ts): the connection         *)
(* lifecycle (connect, reconnect, disconnect, destroy), the registration   *)
(* handshake, capability negotiation, nick handling and the send pipeline. *)
(*                                                                         *)
(* The program is single-threaded.  Every handler of the source is a       *)
(* function from the state before it ran to the state after it ran; it is  *)
(* written here as an operator on the record c of all fields, so that a    *)
(* handler that calls another one is the composition of the two.  An       *)
(* action of the model is one run of the event loop: a user call, a socket *)
(* event, a timer, or the resumption of a pending send().                  *)
(***************************************************************************)
EXTENDS Integers, Sequences, FiniteSets, TLC

(***************************************************************************)
(* Bounds of the model.                                                    *)
(***************************************************************************)
LifeLines == 1      \* inbound server lines in one behaviour of Spec
MaxConns == 3       \* sockets the client may create in one behaviour
MaxBind == 2        \* listener sets bound on one socket (connect() calls)
MaxTimers == 2      \* retry timers pending at once
StartTime == 100    \* Date.now() at construction, in milliseconds
MaxTime == 175      \* the clock's last value in one behaviour
TickMs == 25        \* the step of the clock, in milliseconds

(***************************************************************************)
(* Program constants.                                                      *)
(***************************************************************************)
MIN_DELAY_MS == 33
LineBudget == 497

Null == -1                      \* null / undefined for a number
NoConn == 0                     \* this.conn === undefined
Undefined == <<"undefined">>    \* an argument that is not a string

VARIABLES
  opt,                  \* this.opt: the options the model distinguishes
  isOurSocket,          \* this.isOurSocket
  conn,                 \* this.conn: NoConn or the socket's number
  requestedDisconnect,  \* this.requestedDisconnect
  prevClashNick,        \* this.prevClashNick
  registered,           \* state.registered
  currentNick,          \* state.currentNick
  hostMask,             \* state.hostMask
  nickMod,              \* state.nickMod
  lastSendTime,         \* state.lastSendTime
  queue,                \* the send() calls that have not settled, oldest first
  chainRejected,        \* this.sendingPromise has settled rejected
  capsOnce,             \* the once('serverCapabilitesReady') listener is armed
  serverReady,          \* serverCapabilites.ready
  serverCaps,           \* serverCapabilites.caps, in insertion order
  saslTypes,            \* serverCapabilites.saslTypes, in insertion order
  userOnce,             \* the once('userCapabilitesReady') listener is armed
  userReady,            \* userCapabilites.ready
  userCaps,             \* userCapabilites.caps, in insertion order
  userSaslTypes,        \* userCapabilites.saslTypes, in insertion order
  whoisData,            \* state.whoisData: nick -> the record gathered so far
  whoisListeners,       \* the callbackWrapper listeners of 'whois', in order
  chans,                \* state.chans: channel key -> its users map
  modeForPrefix,        \* state.modeForPrefix, "@" -> "o"
  prefixForMode,        \* state.prefixForMode, "o" -> "@"
  supported,            \* state.supportedState, the fields the model follows
  sharesDefault,        \* state.supportedState is the object DefaultIrcSupported
  defaultSupported,     \* the exported object DefaultIrcSupported, as it is now
  peers,                \* other clients made without a state of their own
  joinOnce,             \* the channel names join() has a once listener for
  buffer,               \* this.buffer: received bytes not yet split in lines
  retryTimers,          \* arguments of the pending setTimeout(connect) calls
  phase,                \* the socket this.conn names: where it is in its life
  ended,                \* conn.end() was called on it
  bound,                \* listener sets bound on it by bindListeners
  boundRetry,           \* reconnectRetryCount captured by those listeners
  connectOnce,          \* once('connect') handlers waiting on it
  wire,                 \* conn.write calls made on it, oldest first
  destroyed,            \* sockets the client called destroy() on
  created,              \* sockets the client created
  now,                  \* Date.now()
  step,                 \* the handler that ran last
  emits,                \* the events it emitted, in order
  hist                  \* history: counters and flags the claims speak about

vars == <<opt, isOurSocket, conn, requestedDisconnect, prevClashNick, registered,
          currentNick, hostMask, nickMod, lastSendTime, queue, chainRejected,
          capsOnce, serverReady, serverCaps, saslTypes, userOnce, userReady,
          userCaps, userSaslTypes, whoisData, whoisListeners, chans, modeForPrefix,
          prefixForMode, supported, sharesDefault, defaultSupported, peers, joinOnce, buffer, retryTimers, phase, ended, bound, boundRetry, connectOnce, wire, destroyed, created,
          now, step, emits, hist>>

MaxPeers == 1

(***************************************************************************)
(* The state as one record, and the step that installs a record.           *)
(***************************************************************************)
Cur ==
  [opt |-> opt, isOurSocket |-> isOurSocket, conn |-> conn,
   requestedDisconnect |-> requestedDisconnect, prevClashNick |-> prevClashNick,
   registered |-> registered, currentNick |-> currentNick, hostMask |-> hostMask,
   nickMod |-> nickMod, lastSendTime |-> lastSendTime, queue |-> queue,
   chainRejected |-> chainRejected, capsOnce |-> capsOnce,
   serverReady |-> serverReady, serverCaps |-> serverCaps,
   saslTypes |-> saslTypes, userOnce |-> userOnce,
   userReady |-> userReady, userCaps |-> userCaps,
   userSaslTypes |-> userSaslTypes, whoisData |-> whoisData,
   whoisListeners |-> whoisListeners, chans |-> chans,
   modeForPrefix |-> modeForPrefix, prefixForMode |-> prefixForMode,
   supported |-> supported, sharesDefault |-> sharesDefault,
   defaultSupported |-> defaultSupported, peers |-> peers, joinOnce |-> joinOnce,
   buffer |-> buffer,
   retryTimers |-> retryTimers, phase |-> phase,
   ended |-> ended, bound |-> bound, boundRetry |-> boundRetry,
   connectOnce |-> connectOnce, wire |-> wire, destroyed |-> destroyed,
   created |-> created, now |-> now, step |-> step, emits |-> emits, hist |-> hist]

\* When state.supportedState is the object DefaultIrcSupported, what the
\* handler wrote to the one is in the other: they are one object.
Set(c) ==
  /\ opt' = c.opt
  /\ isOurSocket' = c.isOurSocket
  /\ conn' = c.conn
  /\ requestedDisconnect' = c.requestedDisconnect
  /\ prevClashNick' = c.prevClashNick
  /\ registered' = c.registered
  /\ currentNick' = c.currentNick
  /\ hostMask' = c.hostMask
  /\ nickMod' = c.nickMod
  /\ lastSendTime' = c.lastSendTime
  /\ queue' = c.queue
  /\ chainRejected' = c.chainRejected
  /\ capsOnce' = c.capsOnce
  /\ serverReady' = c.serverReady
  /\ serverCaps' = c.serverCaps
  /\ saslTypes' = c.saslTypes
  /\ userOnce' = c.userOnce
  /\ userReady' = c.userReady
  /\ userCaps' = c.userCaps
  /\ userSaslTypes' = c.userSaslTypes
  /\ whoisData' = c.whoisData
  /\ whoisListeners' = c.whoisListeners
  /\ chans' = c.chans
  /\ modeForPrefix' = c.modeForPrefix
  /\ prefixForMode' = c.prefixForMode
  /\ supported' = c.supported
  /\ sharesDefault' = c.sharesDefault
  /\ defaultSupported' = IF c.sharesDefault THEN c.supported
                                            ELSE c.defaultSupported
  /\ peers' = c.peers
  /\ joinOnce' = c.joinOnce
  /\ buffer' = c.buffer
  /\ retryTimers' = c.retryTimers
  /\ phase' = c.phase
  /\ ended' = c.ended
  /\ bound' = c.bound
  /\ boundRetry' = c.boundRetry
  /\ connectOnce' = c.connectOnce
  /\ wire' = c.wire
  /\ destroyed' = c.destroyed
  /\ created' = c.created
  /\ now' = c.now
  /\ step' = c.step
  /\ emits' = c.emits
  /\ hist' = c.hist

NoMsg == [command |-> "", args |-> <<>>]

\* A handler starts: what ran and, for 'data', the line it was given.
\* What a state store keeps of the client's state when flush() is called,
\* and what a listener that reads the client synchronously sees.
Snapshot(c) ==
  [registered |-> c.registered, currentNick |-> c.currentNick,
   hostMask |-> c.hostMask, chans |-> c.chans, supported |-> c.supported]

\* hist.capEmits: what state.capabilities has emitted while the handler ran.
\* this.state.flush?.(): hist.flushed is the state as of the last call,
\* hist.flushes the number of calls the running handler has made.
Flush(c) == [c EXCEPT !.hist.flushed = Snapshot(c), !.hist.flushes = @ + 1]

BeginWith(c, name, msg) ==
  [c EXCEPT !.step = [op |-> name, msg |-> msg], !.emits = <<>>,
            !.hist.flushes = 0, !.hist.seen = <<>>, !.hist.capEmits = <<>>]

Begin(c, name) == BeginWith(c, name, NoMsg)

\* this.emit: listeners run synchronously, so hist.seen keeps, for each
\* event, the state a listener reads while it runs.
Emit(c, name, arg) ==
  [c EXCEPT !.emits = Append(@, [name |-> name, arg |-> arg]),
            !.hist.seen = Append(@, Snapshot(c))]

Min(a, b) == IF a < b THEN a ELSE b

(***************************************************************************)
(* The send pipeline: Client._send and Client.send.                        *)
(***************************************************************************)

\* _send throws before it looks at requestedDisconnect: with no connection,
\* or when the last part has no match() method (it is not a string).
SendThrows(c, arg) == c.conn = NoConn \/ arg = Undefined

\* Client._send on parts that do not make it throw: nothing is written once
\* requestedDisconnect is set; otherwise lastSendTime is stamped and the line
\* is written.  seq is the number of the send() call that led here, 0 when a
\* handler called _send itself.
_send(c, cmd, arg, seq) ==
  IF c.requestedDisconnect
    THEN c
    ELSE [c EXCEPT !.lastSendTime = c.now,
                   !.wire = Append(@, [cmd |-> cmd, arg |-> arg, seq |-> seq,
                                       at |-> c.now])]

\* The delay send() computes, in milliseconds.
FloodDelay(c) ==
  c.opt.floodProtectionDelay
    - Min(c.opt.floodProtectionDelay, c.now - c.lastSendTime)

\* Whether send() waits on a timer: flood protection on and the delay above
\* MIN_DELAY_MS.
NeedsTimer(c) == c.opt.floodProtection /\ FloodDelay(c) > MIN_DELAY_MS

\* Client.send: an async function.  Called with no connection it returns a
\* rejected promise and leaves the chain alone.  Otherwise it appends a task
\* that awaits its own delay, then the promise that was the tail of the
\* chain, then calls _send; the task becomes the new tail.
send(c, cmd, arg) ==
  IF c.conn = NoConn
    THEN c
    ELSE LET n == c.hist.sendCalls + 1
             task == [cmd |-> cmd, arg |-> arg, seq |-> n,
                      wait |-> NeedsTimer(c),
                      due |-> IF NeedsTimer(c) THEN c.now + FloodDelay(c)
                                               ELSE c.now]
         IN [c EXCEPT !.queue = Append(@, task), !.hist.sendCalls = n]

\* A send() that resumes as soon as its own delay has passed, whatever the
\* sends before it do.
ResumeIndex_OwnDelayOnly(q) ==
  IF \E i \in 1..Len(q) : ~q[i].wait
    THEN CHOOSE i \in 1..Len(q) : ~q[i].wait /\ \A j \in 1..(i - 1) : q[j].wait
    ELSE 1

\* "await currentSendingPromise": of the pending sends, the one that may
\* resume is the oldest.
ResumeIndex(q) == 1

\* The oldest pending send() resumes: its delay has passed and the send()
\* before it has settled.  "await currentSendingPromise" throws when that
\* promise is rejected; sendPromise.finally() is rejected exactly when
\* sendPromise is, so the rejection is handed down the chain.
Settle(c) ==
  LET k == ResumeIndex(c.queue)
      t == c.queue[k]
      rest == [c EXCEPT !.queue = SubSeq(@, 1, k - 1) \o SubSeq(@, k + 1, Len(@))]
  IN IF c.chainRejected
       THEN [rest EXCEPT !.hist.outcome = "rejected"]
       ELSE IF SendThrows(c, t.arg)
         THEN [rest EXCEPT !.chainRejected = TRUE, !.hist.outcome = "rejected"]
         ELSE [_send(rest, t.cmd, t.arg, t.seq) EXCEPT
                 !.hist.outcome = IF c.requestedDisconnect THEN "dropped"
                                                           ELSE "written"]

\* A send() is ready to resume: a microtask is pending.
Ready(c) == c.queue # <<>> /\ ~c.queue[ResumeIndex(c.queue)].wait

\* The timer of the delayPromise of the pending send() number i has run out.
TimerDue(c, i) == c.queue[i].wait /\ c.queue[i].due <= c.now

\* Timers run in the order they run out: the oldest one first.
FireTimer(c) ==
  LET i == CHOOSE i \in 1..Len(c.queue) :
             TimerDue(c, i) /\ \A j \in 1..(i - 1) : ~TimerDue(c, j)
  IN [c EXCEPT !.queue[i].wait = FALSE]

(***************************************************************************)
(* Strings are sequences of one-character strings.                         *)
(***************************************************************************)
IsSpace(ch) == ch = " "

Last(q) == q[Len(q)]

RECURSIVE SplitFrom(_, _, _, _, _)
SplitFrom(s, i, cur, out, inSpace) ==
  IF i > Len(s) THEN Append(out, cur)
  ELSE IF IsSpace(s[i])
    THEN IF inSpace THEN SplitFrom(s, i + 1, cur, out, TRUE)
                    ELSE SplitFrom(s, i + 1, <<>>, Append(out, cur), TRUE)
    ELSE SplitFrom(s, i + 1, Append(cur, s[i]), out, FALSE)

\* String.prototype.split(/\s+/): the pieces between maximal runs of
\* whitespace, an empty piece before a leading and after a trailing run.
SplitSpaces(s) == SplitFrom(s, 1, <<>>, <<>>, FALSE)

Digits == <<"0", "1", "2", "3", "4", "5", "6", "7", "8", "9">>

\* "" + n for a number n >= 0: its decimal digits.
RECURSIVE Decimal(_)
Decimal(n) == IF n < 10 THEN <<Digits[n + 1]>>
              ELSE Decimal(n \div 10) \o <<Digits[(n % 10) + 1]>>

\* String.prototype.substr(0, len): a negative len counts as 0.
Substr0(s, len) == SubSeq(s, 1, IF len < 0 THEN 0 ELSE Min(len, Len(s)))

(***************************************************************************)
(* The connection: bindListeners, unbindListeners, reconnect, connect,     *)
(* disconnect, destroy, and the handshake.                                 *)
(***************************************************************************)
ExtConn == MaxConns + 1         \* the socket handed to the constructor

\* conn.readyState of the bound socket is 'open'.
IsOpen(c) == c.phase = "open"

\* WEBIRC is sent when the option carries an ip, a password and a host.
SendsWebirc(o) == o.webirc.ip /\ o.webirc.pass /\ o.webirc.host

\* A handshake that sends PASS whenever a password is set.
SendsPass_AlsoWithSasl(o) == o.password

\* PASS is sent when a password is set and sasl is off.
SendsPass(o) == ~o.sasl /\ o.password

\* Client._connectionHandler.
_connectionHandler(c) ==
  LET c1 == IF SendsWebirc(c.opt) THEN _send(c, "WEBIRC", <<>>, 0) ELSE c
      c2 == IF SendsPass(c.opt) THEN _send(c1, "PASS", <<>>, 0) ELSE c1
      c3 == _send([c2 EXCEPT !.chans = [k \in {} |-> {}]], "CAP LS 302", <<>>, 0)
      c4 == Flush(_send(c3, "NICK", c3.currentNick, 0))
      c5 == _send(c4, "USER", <<>>, 0)
  IN [Emit(c5, "connect", Null) EXCEPT
        !.hist.handler = IF c.requestedDisconnect THEN "muted" ELSE "ran"]

\* Client.bindListeners.
bindListeners(c, reconnectRetryCount) ==
  [c EXCEPT !.requestedDisconnect = FALSE,
            !.bound = @ + 1,
            !.boundRetry = reconnectRetryCount]

\* Client.unbindListeners: the data, end, close, timeout and error listeners
\* go; a once('connect') handler stays.
unbindListeners(c) == [c EXCEPT !.bound = 0]

\* net.createConnection / tls.connect: a new socket, connecting.
createConnection(c) ==
  [c EXCEPT !.conn = c.created + 1, !.created = @ + 1, !.phase = "opening",
            !.ended = FALSE, !.bound = 0, !.connectOnce = 0, !.wire = <<>>,
            !.hist.finals = 0, !.hist.saslFailed = FALSE,
            !.hist.scheduled = 0, !.hist.aborts = 0]

\* The retry count connect() binds the listeners with.
ConnectRetryCount(c, arg) ==
  IF arg # Null THEN arg
  ELSE IF c.opt.retryCount # Null THEN c.opt.retryCount ELSE 0

\* A connect() that destroys whatever socket it finds.
DestroysOld_AnySocket(c) == c.conn # NoConn

\* The old socket is destroyed only when the client made it.
DestroysOld(c) == c.isOurSocket /\ c.conn # NoConn

\* A connect() that never takes the session for registered.
ResumesSession_Never(c) == FALSE

\* connect() takes a session whose state says registered for a live one.
ResumesSession(c) == c.registered

\* Client.connect(retryCount).
connect(c, arg) ==
  LET c1 == IF DestroysOld(c)
              THEN [unbindListeners(c) EXCEPT !.destroyed = @ \cup {c.conn},
                                              !.conn = NoConn]
              ELSE c
      c2 == IF c1.conn = NoConn THEN createConnection(c1) ELSE c1
      c3 == [c2 EXCEPT !.hist.fresh = ~c2.registered,
                       !.hist.base = Len(c2.wire),
                       !.hist.handler = "none"]
      c4 == IF ResumesSession(c3) THEN Emit(c3, "registered", Null)
            ELSE IF c3.phase = "opening"
              THEN [c3 EXCEPT !.connectOnce = @ + 1]
              ELSE _connectionHandler(c3)
  IN bindListeners(c4, ConnectRetryCount(c, arg))

\* The retry timer is set only when no disconnect was requested.
StopsAfterDisconnect(c) == c.requestedDisconnect

\* Client.reconnect(retryCount).  hist.scheduled and hist.aborts count the
\* timers set and the aborts emitted since the socket was made (aborts up
\* to 2, which stands for two or more).
reconnect(c, retryCount) ==
  IF ~c.isOurSocket THEN Emit(c, "abort", 0)
  ELSE IF StopsAfterDisconnect(c) THEN c
  ELSE IF c.opt.retryCount # Null /\ retryCount >= c.opt.retryCount
    THEN [Emit(c, "abort", c.opt.retryCount) EXCEPT
            !.hist.aborts = Min(@ + 1, 2)]
    ELSE [c EXCEPT !.retryTimers = Append(@, retryCount + 1),
                   !.hist.scheduled = @ + 1]

\* Client.disconnect, called with a connection (it throws without one).
disconnect(c) ==
  LET c1 == IF IsOpen(c) THEN _send(c, "QUIT", <<>>, 0) ELSE c
  IN [c1 EXCEPT !.requestedDisconnect = TRUE,
                !.ended = TRUE,
                !.phase = IF @ = "open" THEN "readOnly" ELSE @,
                !.hist.userDisconnected = TRUE]

\* Client.destroy.
destroy(c) ==
  IF c.isOurSocket /\ c.conn # NoConn THEN disconnect(unbindListeners(c))
  ELSE unbindListeners(c)

(***************************************************************************)
(* Inbound lines.  A message is [command, args]; args are strings.         *)
(***************************************************************************)
\* message.args[i] of the source (0-based): undefined past the end.
Arg(msg, i) == IF i + 1 <= Len(msg.args) THEN msg.args[i + 1] ELSE Undefined

Star == <<"*">>
LS == <<"L", "S">>
SaslCap == <<"s", "a", "s", "l">>

\* The line that completes the server's CAP LS reply: its list is not
\* preceded by '*'.
IsFinalLS(msg) ==
  msg.command = "CAP" /\ Arg(msg, 1) = LS /\ Arg(msg, 2) \notin {Star, Undefined}

\* Client.onCapsList.
onCapsList(c) ==
  IF c.opt.sasl THEN send(c, "CAP REQ", SaslCap)
                ELSE _send(c, "CAP END", <<>>, 0)

\* The constructor's capabilities.once('serverCapabilitesReady', ...): the
\* listener runs for the first emission after construction and is removed.
EmitServerCapabilitiesReady(c) ==
  LET c1 == [c EXCEPT !.hist.capEmits = Append(@, "serverCapabilitesReady")]
  IN IF c1.capsOnce THEN Flush(onCapsList([c1 EXCEPT !.capsOnce = FALSE]))
                    ELSE c1

\* Capabilities.extend, the ready flag: set by a line whose first part is
\* not '*', never cleared.
ExtendReady(ready, parts) == ready \/ parts[1] # Star

\* A capability string is the sequence of its space-separated tokens.  The
\* SASL mechanisms a token 'sasl=...' lists, in the order and spelling of
\* the token; no other token starts with 'sasl='.
SaslList(token) ==
  CASE token = "sasl=PLAIN" -> <<"PLAIN">>
    [] token = "sasl=plain,EXTERNAL" -> <<"plain", "EXTERNAL">>
    [] token = "sasl=EXTERNAL" -> <<"EXTERNAL">>
    [] OTHER -> <<>>

\* String.prototype.toUpperCase on the mechanism names of the model.
ToUpperCase(str) == IF str = "plain" THEN "PLAIN" ELSE str

\* Set.prototype.add, one value after the other: a Set keeps its values in
\* the order they were first added.
RECURSIVE AddAll(_, _)
AddAll(set, values) ==
  IF values = <<>> THEN set
  ELSE AddAll(IF \E i \in 1..Len(set) : set[i] = Head(values) THEN set
              ELSE Append(set, Head(values)),
              Tail(values))

\* Capabilities.extend, the string it reads: the second part after '*'.
CapabilityString(parts) == IF parts[1] = Star THEN parts[2] ELSE parts[1]

\* Capabilities.extend, saslTypes: the mechanisms of the first token that
\* starts with 'sasl=', upper-cased, are added.
ExtendSaslTypes(types, parts) ==
  LET found == SelectSeq(CapabilityString(parts), LAMBDA t : SaslList(t) # <<>>)
      list == IF found = <<>> THEN <<>> ELSE SaslList(found[1])
  IN AddAll(types, [i \in 1..Len(list) |-> ToUpperCase(list[i])])

\* Capabilities.extend, caps: the tokens of the string and, as saslTypes is
\* an array on every path ('|| []'), the token 'sasl'.
ExtendCaps(caps, parts) == AddAll(caps, Append(CapabilityString(parts), "sasl"))

\* What a call gives: it throws, or it returns a value.
Throws == [throws |-> TRUE]
Returns(result) == [throws |-> FALSE, result |-> result]

\* Set.prototype.has.
Has(set, item) == \E i \in 1..Len(set) : set[i] = item

\* get supportsSasl.
supportsSasl(c) ==
  IF ~c.serverReady THEN Throws ELSE Returns(Has(c.serverCaps, "sasl"))

\* IrcCapabilities.supportsSaslMethod, what it returns or that it throws.
SupportsSaslMethod(c, method, allowNoMethods) ==
  IF ~c.serverReady THEN Throws
  ELSE IF ~Has(c.serverCaps, "sasl") THEN Returns(FALSE)
  ELSE IF c.saslTypes = <<>> THEN Returns(allowNoMethods)
  ELSE Returns(Has(c.saslTypes, ToUpperCase(method)))

\* IrcCapabilities.supportsSaslMethod as its one caller uses it: the caller
\* throws on false as the method does while the server's list is not ready.
supportsSaslMethod(c, method, allowNoMethods) ==
  SupportsSaslMethod(c, method, allowNoMethods) = Returns(TRUE)

\* Client.onCapsConfirmed; when it throws, nothing is written.
onCapsConfirmed(c) ==
  IF ~c.opt.sasl THEN send(c, "CAP END", <<>>)
  ELSE IF supportsSaslMethod(c, c.opt.saslType, TRUE)
    THEN _send(c, "AUTHENTICATE", <<c.opt.saslType>>, 0)
    ELSE c

\* The constructor's capabilities.once('userCapabilitesReady', ...).
EmitUserCapabilitiesReady(c) ==
  LET c1 == [c EXCEPT !.hist.capEmits = Append(@, "userCapabilitesReady")]
  IN IF c1.userOnce THEN Flush(onCapsConfirmed([c1 EXCEPT !.userOnce = FALSE]))
                    ELSE c1

ACK == <<"A", "C", "K">>

\* IrcCapabilities.onCap, subcommands LS and ACK.
onCap(c, msg) ==
  LET parts == SubSeq(msg.args, 3, Len(msg.args))
  IN IF Arg(msg, 1) = LS
       THEN LET c1 == [c EXCEPT !.serverReady = ExtendReady(@, parts),
                                !.serverCaps = ExtendCaps(@, parts),
                                !.saslTypes = ExtendSaslTypes(@, parts)]
            IN IF c1.serverReady THEN EmitServerCapabilitiesReady(c1) ELSE c1
     ELSE IF Arg(msg, 1) = ACK
       THEN LET c1 == [c EXCEPT !.userReady = ExtendReady(@, parts),
                                !.userCaps = ExtendCaps(@, parts),
                                !.userSaslTypes = ExtendSaslTypes(@, parts)]
            IN IF c1.userReady THEN EmitUserCapabilitiesReady(c1) ELSE c1
     ELSE c

\* IrcCapabilities.serialise: the four sets as lists.
serialise(c) ==
  [serverCapabilites |-> c.serverCaps, serverCapabilitesSasl |-> c.saslTypes,
   userCapabilites |-> c.userCaps, userCapabilitesSasl |-> c.userSaslTypes]

\* new IrcCapabilities(data): the two Capabilities it starts with, filled
\* from data by the four forEach statements, in their order.
IrcCapabilities(data) ==
  LET server0 == AddAll(<<>>, data.serverCapabilites)
      serverSasl == AddAll(<<>>, data.serverCapabilitesSasl)
      server1 == AddAll(server0, data.userCapabilites)
      userSasl == AddAll(<<>>, data.userCapabilitesSasl)
  IN [serverCaps |-> server1, saslTypes |-> serverSasl, serverReady |-> FALSE,
      userCaps |-> <<>>, userSaslTypes |-> userSasl, userReady |-> FALSE]

Plus == <<"+">>
Credentials == <<"b64">>

\* Client.onAuthenticate; an unknown saslType makes it throw.
onAuthenticate(c, msg) ==
  IF Arg(msg, 0) # Plus THEN c
  ELSE CASE c.opt.saslType = "PLAIN" -> _send(c, "AUTHENTICATE", Credentials, 0)
         [] c.opt.saslType = "EXTERNAL" -> _send(c, "AUTHENTICATE", Plus, 0)
         [] OTHER -> c

SaslErrors == {"err_saslfail", "err_sasltoolong", "err_saslaborted", "err_saslalready"}

\* Client.onRaw, the SASL failure numerics.
onSaslError(c, msg) ==
  _send(Emit(c, "sasl_error", msg.command), "CAP END", <<>>, 0)

\* Client.whois: with a callback, callbackWrapper is added to the listeners
\* of 'whois'; then WHOIS is sent.  callback is "own" for the one
\* onReplyWelcome passes, "user" for a user's, "none" without one; id tells
\* the user's calls apart.
whois(c, nick, callback) ==
  LET id == IF callback = "user" THEN c.hist.whoisCalls + 1 ELSE 0
      c1 == IF callback = "none" THEN c
            ELSE [c EXCEPT !.whoisListeners =
                             Append(@, [nick |-> nick, callback |-> callback,
                                        id |-> id]),
                           !.hist.whoisCalls = IF callback = "user" THEN id ELSE @]
  IN send(c1, "WHOIS", nick)

\* A welcome whose hostmask is the first word of the text.
WelcomeHostMask_FirstWord(text) == Head(SplitSpaces(text))

\* The hostmask onReplyWelcome takes from the welcome text: its last word.
WelcomeHostMask(text) == Last(SplitSpaces(text))

\* Client.onReplyWelcome.
onReplyWelcome(c, msg) ==
  LET c1 == [c EXCEPT !.currentNick = Arg(msg, 0),
                      !.hostMask = WelcomeHostMask(Arg(msg, 1))]
      c2 == [Emit(c1, "registered", Null) EXCEPT !.registered = TRUE]
  IN whois(Flush(c2), c2.currentNick, "own")

\* get maxLineLength.
maxLineLength(c) == LineBudget - Len(c.currentNick) - Len(c.hostMask)

\* The nick onNickConflict builds from the current nick and the counter.
ConflictNick(nick, mod, maxLen) ==
  LET n == nick \o Decimal(mod)
  IN IF maxLen # Null /\ maxLen # 0 /\ Len(n) > maxLen
       THEN Substr0(nick, maxLen - Len(Decimal(mod))) \o Decimal(mod)
       ELSE n

\* Client.onNickConflict(maxLen): the state with nickMod advanced, and the
\* nick it returns.
onNickConflict(c, maxLen) ==
  LET c1 == [c EXCEPT !.nickMod = @ + 1]
  IN [c |-> c1, nick |-> ConflictNick(c1.currentNick, c1.nickMod, maxLen)]

\* A client that keeps its nick until the server confirms another.
TakesProposal_Not(c, nick) == c

\* The nick just proposed in a NICK line becomes state.currentNick.
TakesProposal(c, nick) == [c EXCEPT !.currentNick = nick]

\* Client.onErrNicknameInUse.
onErrNicknameInUse(c, msg) ==
  LET first == onNickConflict(c, Null)
      retry == first.c.nickMod > 1 /\ first.c.prevClashNick # <<>>
                 /\ Arg(msg, 1) # first.c.prevClashNick
      second == IF retry THEN onNickConflict(first.c, Len(Arg(msg, 1)))
                         ELSE first
      c1 == IF first.c.nickMod > 1
              THEN [second.c EXCEPT !.prevClashNick = second.nick]
              ELSE second.c
  IN Flush(TakesProposal(_send(c1, "NICK", second.nick, 0), second.nick))

(***************************************************************************)
(* Channel tracking.  state.chans maps the key of a channel to its         *)
(* ChanData: serverName, the users map (nick -> prefix string), mode and    *)
(* modeParams.  Channel names, nicks and prefix strings are sequences of   *)
(* characters.                                                             *)
(***************************************************************************)
\* An empty Map.
NoChans == [k \in {} |-> {}]

\* Map.set and Map.delete.
MapSet(f, k, v) == [x \in DOMAIN f \cup {k} |-> IF x = k THEN v ELSE f[x]]
MapDelete(f, k) == [x \in DOMAIN f \ {k} |-> f[x]]

\* message.nick of a line whose prefix is not a user's (a server name, or no
\* prefix): undefined.
NoNick == <<>>

\* String.prototype.toLowerCase, on the letters the model uses.
LowerChar(ch) == CASE ch = "C" -> "c" [] ch = "D" -> "d" [] OTHER -> ch
StringToLowerCase(str) == [i \in 1..Len(str) |-> LowerChar(str[i])]

\* The replacements Client.toLowerCase makes after lowercasing.
Rfc1459Char(ch, strict) ==
  CASE ch = "[" -> "{"
    [] ch = "]" -> "}"
    [] ch = "\\" -> "|"
    [] ch = "^" /\ ~strict -> "~"
    [] OTHER -> ch

\* Lowercasing under a casemapping the client knows.
LowerUnder(str, casemapping) ==
  CASE casemapping = "rfc1459" ->
         [i \in 1..Len(str) |-> Rfc1459Char(LowerChar(str[i]), FALSE)]
    [] casemapping = "strict-rfc1459" ->
         [i \in 1..Len(str) |-> Rfc1459Char(LowerChar(str[i]), TRUE)]
    [] OTHER -> StringToLowerCase(str)

knownCaseMappings == {"ascii", "rfc1459", "strict-rfc1459"}

\* Client.toLowerCase.
toLowerCase(c, str) ==
  IF c.supported.casemapping \notin knownCaseMappings THEN str
  ELSE LowerUnder(str, c.supported.casemapping)

\* Client._casemap(msg, index).
_casemap(c, msg, index) ==
  IF \/ Len(msg.args) <= index
     \/ msg.args[index + 1] = <<>>
     \/ msg.args[index + 1][1] # "#"
    THEN msg
    ELSE [msg EXCEPT !.args[index + 1] = toLowerCase(c, @)]

\* Client.chanData(name, create): its effect on the state.  (It returns the
\* entry that existed before the call, Existing below.)
chanData(c, name, create) ==
  LET key == StringToLowerCase(name)
  IN IF create /\ key \notin DOMAIN c.chans
       THEN Flush([c EXCEPT !.chans =
                     MapSet(@, key, [serverName |-> name, users |-> NoChans,
                                     mode |-> <<>>, modeParams |-> NoChans])])
       ELSE c

Existing(c, name) == StringToLowerCase(name) \in DOMAIN c.chans

\* Client.removeChanData(name).
removeChanData(c, name) ==
  Flush([c EXCEPT !.chans = MapDelete(@, StringToLowerCase(name))])

\* channel.users.set and channel.users.delete on the channel chanData(name)
\* returned.
UsersSet(c, name, nick, prefix) ==
  [c EXCEPT !.chans[StringToLowerCase(name)].users = MapSet(@, nick, prefix)]
UsersDelete(c, name, nick) ==
  [c EXCEPT !.chans[StringToLowerCase(name)].users = MapDelete(@, nick)]

\* The events named after a channel, 'join' + channel and the like: the
\* model keeps the channel as the first argument.  Emitting 'join' + channel
\* runs and removes the listener that join(channel) registered under this
\* name; hist.joined keeps the names whose listener has run.
\* One event is emitted under the name, and one more under the lowercased
\* name when the two differ.
EmitNamed(c, name, chan, arg) ==
  LET c1 == Emit(c, name, <<chan, arg>>)
  IN IF name = "join<chan>" /\ chan \in c.joinOnce
       THEN [c1 EXCEPT !.joinOnce = @ \ {chan}, !.hist.joined = @ \cup {chan}]
       ELSE c1

EmitPerChannel(c, name, chan, arg) ==
  LET c1 == EmitNamed(c, name, chan, arg)
  IN IF chan # StringToLowerCase(chan)
       THEN EmitNamed(c1, name, StringToLowerCase(chan), arg)
       ELSE c1

\* Client.onJoin.
onJoin(c, message) ==
  IF message.nick = NoNick THEN c
  ELSE LET msg == _casemap(c, message, 0)
           c1 == IF c.currentNick = msg.nick
                   THEN chanData(c, Arg(msg, 0), TRUE)
                   ELSE Flush(IF Existing(c, Arg(msg, 0))
                                THEN UsersSet(c, Arg(msg, 0), msg.nick, <<>>)
                                ELSE c)
       IN EmitPerChannel(Emit(c1, "join", <<Arg(msg, 0), msg.nick>>),
                         "join<chan>", Arg(msg, 0), msg.nick)

\* Client.onPart.
onPart(c, message) ==
  IF message.nick = NoNick THEN c
  ELSE LET msg == _casemap(c, message, 0)
           c1 == EmitPerChannel(Emit(c, "part", <<Arg(msg, 0), msg.nick>>),
                                "part<chan>", Arg(msg, 0), msg.nick)
       IN IF c.currentNick = msg.nick
            THEN removeChanData(c1, Arg(msg, 0))
            ELSE Flush(IF Existing(c1, Arg(msg, 0))
                         THEN UsersDelete(c1, Arg(msg, 0), msg.nick)
                         ELSE c1)

\* Client.onKick: args[1] is the nick that was kicked, message.nick the one
\* that kicked.
onKick(c, message) ==
  IF message.nick = NoNick THEN c
  ELSE LET msg == _casemap(c, message, 0)
           c1 == Emit(c, "kick", <<Arg(msg, 0), Arg(msg, 1), msg.nick>>)
       IN IF c.currentNick = Arg(msg, 1)
            THEN removeChanData(c1, Arg(msg, 0))
            ELSE Flush(IF Existing(c1, Arg(msg, 0))
                         THEN UsersDelete(c1, Arg(msg, 0), Arg(msg, 1))
                         ELSE c1)

\* Client.onPrivateMessage, for a text that is no CTCP.  The comparison of
\* the target with our nick (the pm event) is made on the upper case of both,
\* which on the nicks of the model is the comparison of the two.
onPrivateMessage(c, message) ==
  IF message.nick = NoNick THEN c
  ELSE LET msg == _casemap(c, message, 0)
           to == Arg(msg, 0)
           c1 == Emit(c, "message", <<msg.nick, to>>)
           c2 == IF to # <<>> /\ (\E i \in 1..Len(c.supported.types) :
                                    c.supported.types[i] = to[1])
                   THEN EmitPerChannel(c1, "message<chan>", to, msg.nick)
                   ELSE c1
       IN IF to = c.currentNick THEN Emit(c2, "pm", msg.nick) ELSE c2

\* Client.onQuit.
onQuit(c, message) ==
  IF message.nick = NoNick THEN c
  ELSE IF c.currentNick = message.nick THEN c
  ELSE LET quitChannels == {k \in DOMAIN c.chans :
                              message.nick \in DOMAIN c.chans[k].users}
           c1 == [c EXCEPT !.chans =
                    [k \in DOMAIN @ |->
                       [@[k] EXCEPT !.users = MapDelete(@, message.nick)]]]
       IN Emit(Flush(c1), "quit", <<message.nick, quitChannels>>)

\* Client.onKill: the event carries args[0] and the channels the loop
\* collected.
onKill(c, message) ==
  LET nick == Arg(message, 0)
      killChannels == IF message.nick = NoNick THEN {}
                      ELSE {k \in DOMAIN c.chans :
                              message.nick \in DOMAIN c.chans[k].users}
      c1 == [c EXCEPT !.chans =
               [k \in DOMAIN @ |->
                  IF k \in killChannels
                    THEN [@[k] EXCEPT !.users = MapDelete(@, message.nick)]
                    ELSE @[k]]]
  IN Emit(Flush(c1), "kill", <<nick, killChannels>>)

\* Client.onNick: a channel's user is renamed when users.get(nick) is truthy,
\* which the empty string is not.
Renames(users, nick) == nick \in DOMAIN users /\ users[nick] # <<>>

onNick(c, message) ==
  IF message.nick = NoNick THEN c
  ELSE LET c1 == IF message.nick = c.currentNick
                   THEN Flush([c EXCEPT !.currentNick = Arg(message, 0)])
                   ELSE c
           channelsForNick == {k \in DOMAIN c.chans :
                                 Renames(c.chans[k].users, message.nick)}
           c2 == [c1 EXCEPT !.chans =
                    [k \in DOMAIN @ |->
                       IF k \in channelsForNick
                         THEN [@[k] EXCEPT !.users =
                                 MapDelete(MapSet(@, Arg(message, 0),
                                                  @[message.nick]),
                                           message.nick)]
                         ELSE @[k]]]
       IN Emit(Flush(c2), "nick",
               <<message.nick, Arg(message, 0), channelsForNick>>)

\* The prefix regular expression of onReplyName: how many leading characters
\* of user are prefix symbols.
RECURSIVE PrefixLen(_, _, _)
PrefixLen(symbols, user, i) ==
  IF i < Len(user) /\ user[i + 1] \in symbols
    THEN PrefixLen(symbols, user, i + 1)
    ELSE i

\* Client.onReplyName: args[3] is the list of names, here already split at
\* the spaces.
RECURSIVE NamesLoop(_, _, _, _)
NamesLoop(c, name, users, i) ==
  IF i > Len(users) THEN c
  ELSE LET n == PrefixLen(DOMAIN c.modeForPrefix, users[i], 0)
           knownPrefixes == SubSeq(users[i], 1, n)
           nick == SubSeq(users[i], n + 1, Len(users[i]))
       IN NamesLoop(IF n > 0 THEN UsersSet(c, name, nick, knownPrefixes)
                             ELSE UsersSet(c, name, users[i], <<>>),
                    name, users, i + 1)

onReplyName(c, message) ==
  LET msg == _casemap(c, message, 2)
  IN IF ~Existing(c, Arg(msg, 2)) THEN c
     ELSE IF Arg(msg, 3) = <<>> THEN c
     ELSE Flush(NamesLoop(c, Arg(msg, 2), Arg(msg, 3), 1))

\* Client.onReplyChannelMode: args[2] is the mode string as the server sent
\* it, sign included.
onReplyChannelMode(c, message) ==
  LET msg == _casemap(c, message, 1)
      c1 == IF Existing(c, Arg(msg, 1))
              THEN Flush([c EXCEPT !.chans[StringToLowerCase(Arg(msg, 1))].mode =
                                     Arg(msg, 2)])
              ELSE c
  IN Emit(c1, "mode_is", <<Arg(msg, 1), Arg(msg, 2)>>)

\* String.prototype.includes and replace(prefix, ''), for one character.
Includes(str, ch) == \E i \in 1..Len(str) : str[i] = ch

RemoveFirst(str, ch) ==
  LET i == CHOOSE i \in 1..Len(str) :
             str[i] = ch /\ \A j \in 1..(i - 1) : str[j] # ch
  IN SubSeq(str, 1, i - 1) \o SubSeq(str, i + 1, Len(str))

\* A mode handler that never takes a prefix away.
PrefixAfterMode_NeverRemoves(curr, prefix, adding) ==
  IF adding /\ ~Includes(curr, prefix) THEN Append(curr, prefix) ELSE curr

\* onMode, the prefix string a listed user has after one prefix mode.
PrefixAfterMode(curr, prefix, adding) ==
  IF adding /\ ~Includes(curr, prefix) THEN Append(curr, prefix)
  ELSE IF Includes(curr, prefix) THEN RemoveFirst(curr, prefix)
  ELSE curr

\* onMode, handleChannelMode(mode, param, modeIsList) on the ChanData
\* channel.  An empty array is truthy: a mode set with no parameter has a
\* modeParam.
handleChannelMode(channel, adding, mode, param, modeIsList) ==
  LET has == mode \in DOMAIN channel.modeParams
      modeParam == IF has THEN channel.modeParams[mode] ELSE <<>>
  IN IF adding
       THEN [channel EXCEPT
               !.mode = IF Includes(@, mode) THEN @ ELSE Append(@, mode),
               !.modeParams =
                 MapSet(@, mode,
                        IF param = Undefined THEN <<>>
                        ELSE IF modeIsList THEN Append(modeParam, param)
                        ELSE <<param>>)]
     ELSE IF has
       THEN IF modeIsList
              THEN [channel EXCEPT
                      !.modeParams =
                        MapSet(@, mode, SelectSeq(modeParam,
                                                  LAMBDA m : m # <<mode>>))]
              ELSE [channel EXCEPT
                      !.mode = IF Includes(@, mode) THEN RemoveFirst(@, mode)
                               ELSE @,
                      !.modeParams = MapDelete(@, mode)]
     ELSE channel

\* Client.onMode, modeList.forEach.
RECURSIVE ModeLoop(_, _, _, _, _, _, _)
ModeLoop(c, chanName, from, modeList, i, adding, modeArgs) ==
  IF i > Len(modeList) THEN c
  ELSE LET mode == modeList[i]
           eventName == IF adding THEN "+mode" ELSE "-mode"
           supportedModes == c.supported.modes
           key == StringToLowerCase(chanName)
           shifted == IF modeArgs = <<>> THEN Undefined ELSE Head(modeArgs)
           rest == IF modeArgs = <<>> THEN <<>> ELSE Tail(modeArgs)
           Handle(param, modeIsList) ==
             Emit([c EXCEPT !.chans[key] =
                              handleChannelMode(@, adding, mode, param,
                                                modeIsList)],
                  eventName, <<chanName, from, mode, param>>)
       IN IF mode = "+"
            THEN ModeLoop(c, chanName, from, modeList, i + 1, TRUE, modeArgs)
          ELSE IF mode = "-"
            THEN ModeLoop(c, chanName, from, modeList, i + 1, FALSE, modeArgs)
          ELSE IF mode \in DOMAIN c.prefixForMode
            THEN LET user == shifted
                     users == c.chans[key].users
                     c1 == IF user \in DOMAIN users
                             THEN UsersSet(c, chanName, user,
                                           PrefixAfterMode(users[user],
                                                           c.prefixForMode[mode],
                                                           adding))
                             ELSE c
                 IN ModeLoop(Emit(c1, eventName, <<chanName, from, mode, user>>),
                             chanName, from, modeList, i + 1, adding, rest)
          ELSE IF Includes(supportedModes.a, mode)
            THEN ModeLoop(Handle(shifted, TRUE),
                          chanName, from, modeList, i + 1, adding, rest)
          ELSE IF Includes(supportedModes.b, mode)
            THEN ModeLoop(Handle(shifted, FALSE),
                          chanName, from, modeList, i + 1, adding, rest)
          ELSE IF Includes(supportedModes.c, mode)
            THEN ModeLoop(Handle(IF adding THEN shifted ELSE Undefined, FALSE),
                          chanName, from, modeList, i + 1, adding,
                          IF adding THEN rest ELSE modeArgs)
          ELSE IF Includes(supportedModes.d, mode)
            THEN ModeLoop(Handle(Undefined, FALSE),
                          chanName, from, modeList, i + 1, adding, modeArgs)
          ELSE ModeLoop(c, chanName, from, modeList, i + 1, adding, modeArgs)

onMode(c, message) ==
  LET msg == _casemap(c, message, 0)
  IN IF ~Existing(c, Arg(msg, 0)) THEN c
     ELSE IF msg.nick = NoNick THEN c
     ELSE Flush(ModeLoop(c, Arg(msg, 0), msg.nick, Arg(msg, 1), 1, TRUE,
                         SubSeq(msg.args, 3, Len(msg.args))))

\* String.prototype.includes, for a string: '' is included in every string.
IncludesString(str, sub) ==
  \E i \in 0..(Len(str) - Len(sub)) : SubSeq(str, i + 1, i + Len(sub)) = sub

\* What a string becomes when undefined is added to it or looked for in it.
UndefinedText == <<"u", "n", "d", "e", "f", "i", "n", "e", "d">>

\* Client.onReplyISupport, CHANMODES: values is the token's value split at
\* the commas; the groups go to the classes a, b, c, d in this order.
ChanModes(modes, values) ==
  LET Group(i) == IF i <= Len(values) THEN values[i] ELSE UndefinedText
      Add(str, mode) == IF IncludesString(str, mode) THEN str ELSE str \o mode
  IN [a |-> Add(modes.a, Group(1)), b |-> Add(modes.b, Group(2)),
      c |-> Add(modes.c, Group(3)), d |-> Add(modes.d, Group(4))]

\* Client.onReplyISupport, PREFIX=(modes)prefixes: the while loop over the
\* characters of the two groups the regular expression matched.
RECURSIVE PrefixLoop(_, _, _)
PrefixLoop(c, match1, match2) ==
  IF match1 = <<>> THEN c
  ELSE LET c1 == [c EXCEPT !.modeForPrefix =
                    MapSet(@, IF match2 = <<>> THEN "undefined" ELSE Head(match2),
                           Head(match1)),
                           !.supported.modes.b =
                             IF Includes(@, Head(match1)) THEN @
                             ELSE Append(@, Head(match1))]
           c2 == IF match2 = <<>> THEN c1
                 ELSE [c1 EXCEPT !.prefixForMode =
                         MapSet(@, Head(match1), Head(match2))]
       IN PrefixLoop(c2, Tail(match1),
                     IF match2 = <<>> THEN <<>> ELSE Tail(match2))

\* A push that does not look for the value first.
PushNew_Always(extra, value) == Append(extra, value)

\* Array.prototype.includes and push on supportedState.extra.
PushNew(extra, value) ==
  IF \E i \in 1..Len(extra) : extra[i] = value THEN extra
  ELSE Append(extra, value)

\* Client.onReplyISupport, one argument that the regular expression
\* matched: token.param and token.value are its two groups.  (The tokens
\* the model lets the server send are the ones this switch tells apart by
\* the fields the model follows.)
ISupportToken(c, token) ==
  CASE token.param = "CASEMAPPING" ->
         [c EXCEPT !.supported.casemapping = token.value]
    [] token.param = "CHANMODES" ->
         [c EXCEPT !.supported.modes = ChanModes(@, token.value)]
    [] token.param = "CHANTYPES" ->
         [c EXCEPT !.supported.types = token.value]
    [] token.param = "PREFIX" ->
         PrefixLoop([c EXCEPT !.supported.usermodepriority = token.value.modes],
                    token.value.modes, token.value.prefixes)
    [] OTHER ->
         [c EXCEPT !.supported.extra = PushNew(@, token.value)]

\* Client.onReplyISupport, message.args.forEach: args[0], our nick, has no
\* '=' and is skipped; the arguments after it are the tokens.
RECURSIVE ISupportLoop(_, _, _)
ISupportLoop(c, args, i) ==
  IF i > Len(args) THEN c
  ELSE ISupportLoop(ISupportToken(c, args[i]), args, i + 1)

onReplyISupport(c, msg) ==
  Emit(Flush(ISupportLoop(c, msg.args, 2)), "isupport", Null)

\* Client.onBadNickname: hist.random is what Math.floor(Math.random() *
\* 1000) gives.
rndNick(n) == <<"e", "n", "i", "c", "k", "_">> \o Decimal(n)

onBadNickname(c, message) ==
  IF c.hostMask # <<>> THEN Emit(c, "error", message.command)
  ELSE Flush([_send(c, "NICK", rndNick(c.hist.random), 0) EXCEPT
                !.currentNick = rndNick(c.hist.random)])

(***************************************************************************)
(* WHOIS replies.  A WhoisResponse is a map from its keys to their values. *)
(***************************************************************************)
\* A property of a WhoisResponse, undefined when it is not set.
Field(info, key) == IF key \in DOMAIN info THEN info[key] ELSE Undefined

\* Client._addWhoisData.
_addWhoisData(c, nick, key, val, onlyIfExists) ==
  IF nick \in DOMAIN c.whoisData
    THEN [c EXCEPT !.whoisData[nick] = MapSet(@, key, val)]
  ELSE IF onlyIfExists THEN c
  ELSE [c EXCEPT !.whoisData =
          MapSet(@, nick, MapSet(MapSet(NoChans, "nick", nick), key, val))]

\* Client._clearWhoisData, the state it leaves; what it returns is
\* c.whoisData[nick] if there is one.
_clearWhoisData(c, nick) == [c EXCEPT !.whoisData = MapDelete(@, nick)]

\* The callback onReplyWelcome gives whois(), called with a response.
OwnWhoisCallback(c, args) ==
  Flush([c EXCEPT !.currentNick = Field(args, "nick"),
                  !.hostMask = Field(args, "user") \o <<"@">> \o Field(args, "host")])

\* removeListener('whois', callbackWrapper): the wrapper is taken out.
RemoveListener(listeners, l) ==
  IF \E i \in 1..Len(listeners) : listeners[i] = l
    THEN LET k == CHOOSE i \in 1..Len(listeners) :
                    /\ listeners[i] = l
                    /\ \A j \in (i + 1)..Len(listeners) : listeners[j] # l
         IN SubSeq(listeners, 1, k - 1) \o SubSeq(listeners, k + 1, Len(listeners))
    ELSE listeners

\* callbackWrapper of the listener l, called with the response info (never
\* empty when 'whois' is emitted): when the nicks agree in lower case the
\* wrapper is removed and the callback is called; hist.called keeps the
\* calls made to users' callbacks.
callbackWrapper(c, l, info) ==
  IF StringToLowerCase(Field(info, "nick")) = StringToLowerCase(l.nick)
    THEN LET c1 == [c EXCEPT !.whoisListeners = RemoveListener(@, l)]
         IN IF l.callback = "own" THEN OwnWhoisCallback(c1, info)
            ELSE [c1 EXCEPT !.hist.called = Append(@, [id |-> l.id, info |-> info])]
    ELSE c

\* this.emit('whois', info): the listeners there were when it was emitted
\* run in the order they were added.
RECURSIVE RunWhoisListeners(_, _, _)
RunWhoisListeners(c, listeners, info) ==
  IF listeners = <<>> THEN c
  ELSE RunWhoisListeners(callbackWrapper(c, Head(listeners), info),
                         Tail(listeners), info)

\* Client.handleEndOfWhois.
handleEndOfWhois(c, nick) ==
  IF nick \in DOMAIN c.whoisData
    THEN LET whoisdata == c.whoisData[nick]
             c1 == Emit(_clearWhoisData(c, nick), "whois", nick)
         IN RunWhoisListeners(c1, c1.whoisListeners, whoisdata)
    ELSE _clearWhoisData(c, nick)

\* Client.onRaw, rpl_whoisuser.
onWhoisUser(c, msg) ==
  LET c1 == _addWhoisData(c, Arg(msg, 1), "user", Arg(msg, 2), FALSE)
      c2 == _addWhoisData(c1, Arg(msg, 1), "host", Arg(msg, 3), FALSE)
  IN _addWhoisData(c2, Arg(msg, 1), "realname", Arg(msg, 5), FALSE)

BadNickname == {"err_erroneusnickname", "err_unavailresource"}

\* Client.onRaw, for the commands the model lets the server send.
onRaw(c, msg) ==
  CASE msg.command = "PING" ->
         Emit(send(c, "PONG", Arg(msg, 0)), "ping", Null)
    [] msg.command = "CAP" -> onCap(c, msg)
    [] msg.command = "AUTHENTICATE" -> onAuthenticate(c, msg)
    [] msg.command \in SaslErrors -> onSaslError(c, msg)
    [] msg.command = "rpl_saslsuccess" -> _send(c, "CAP END", <<>>, 0)
    [] msg.command = "rpl_welcome" -> onReplyWelcome(c, msg)
    [] msg.command = "err_nicknameinuse" -> onErrNicknameInUse(c, msg)
    [] msg.command = "rpl_isupport" -> onReplyISupport(c, msg)
    [] msg.command = "MODE" -> onMode(c, msg)
    [] msg.command = "NICK" -> onNick(c, msg)
    [] msg.command = "rpl_namreply" -> onReplyName(c, msg)
    [] msg.command = "JOIN" -> onJoin(c, msg)
    [] msg.command = "PART" -> onPart(c, msg)
    [] msg.command = "KICK" -> onKick(c, msg)
    [] msg.command = "QUIT" -> onQuit(c, msg)
    [] msg.command = "KILL" -> onKill(c, msg)
    [] msg.command = "PRIVMSG" -> onPrivateMessage(c, msg)
    [] msg.command = "rpl_channelmodeis" -> onReplyChannelMode(c, msg)
    [] msg.command \in BadNickname -> onBadNickname(c, msg)
    [] msg.command = "rpl_away" ->
         _addWhoisData(c, Arg(msg, 1), "away", Arg(msg, 2), TRUE)
    [] msg.command = "rpl_whoisuser" -> onWhoisUser(c, msg)
    [] msg.command = "rpl_endofwhois" -> handleEndOfWhois(c, Arg(msg, 1))
    [] OTHER -> c

(***************************************************************************)
(* The listeners bindListeners installs, and their dispatch: a socket      *)
(* event runs every listener set bound on the socket.                      *)
(***************************************************************************)
\* Listeners that leave state.registered as it is.
Unregister_Kept(c) == c

\* "Ensure we reset the state": the end, close and timeout listeners.
Unregister(c) == [c EXCEPT !.registered = FALSE]

Listener(c, evt, msg) ==
  CASE evt = "data" -> onRaw(c, msg)
    [] evt = "end" -> Unregister(c)
    [] evt = "close" -> reconnect(Unregister(c), c.boundRetry)
    [] evt = "timeout" -> reconnect(Unregister(c), c.boundRetry)

RECURSIVE Dispatch(_, _, _, _)
Dispatch(c, evt, msg, n) ==
  IF n = 0 THEN c ELSE Dispatch(Listener(c, evt, msg), evt, msg, n - 1)

(***************************************************************************)
(* Client.onData: the received bytes are split in lines.  A byte is a      *)
(* one-character string.                                                   *)
(***************************************************************************)
CR == "\r"
LF == "\n"

\* A delimiter that is the line feed alone.
DelimiterAt_LineFeedOnly(s, i) == IF s[i] = LF THEN 1 ELSE 0

\* lineDelimiter, /\r\n|\r|\n/: the length of its match at position i, 0 when
\* it does not match there.
DelimiterAt(s, i) ==
  IF s[i] = CR /\ i < Len(s) /\ s[i + 1] = LF THEN 2
  ELSE IF s[i] \in {CR, LF} THEN 1
  ELSE 0

\* String.prototype.split(lineDelimiter), from position i on.
RECURSIVE SplitLines(_, _, _, _)
SplitLines(s, i, cur, out) ==
  IF i > Len(s) THEN Append(out, cur)
  ELSE IF DelimiterAt(s, i) > 0
    THEN SplitLines(s, i + DelimiterAt(s, i), <<>>, Append(out, cur))
    ELSE SplitLines(s, i + 1, Append(cur, s[i]), out)

\* One character that stands for the text of a welcome line,
\* ":localhost 001 a :Welcome a".
WelcomeText == "W"

\* parseMessage, on the lines the model receives as bytes.
parseMessage(line) ==
  IF line = <<WelcomeText>> THEN [command |-> "rpl_welcome", args |-> <<<<"a">>, <<"a">>>>]
  ELSE [command |-> "unknown", args |-> <<line>>]

\* lines.forEach: every line that is not empty is parsed and emitted as 'raw',
\* which runs onRaw.
RECURSIVE EmitRaw(_, _, _)
EmitRaw(c, lines, i) ==
  IF i > Len(lines) THEN c
  ELSE IF lines[i] = <<>> THEN EmitRaw(c, lines, i + 1)
  ELSE EmitRaw(onRaw([c EXCEPT !.hist.raws = Append(@, lines[i])],
                     parseMessage(lines[i])),
               lines, i + 1)

\* Client.onData(chunk).
onData(c, chunk) ==
  LET buf == c.buffer \o chunk
      lines == SplitLines(buf, 1, <<>>, <<>>)
  IN IF Last(lines) # <<>>
       THEN [c EXCEPT !.buffer = buf]
       ELSE EmitRaw([c EXCEPT !.buffer = <<>>],
                    SubSeq(lines, 1, Len(lines) - 1), 1)

\* Every 'data' listener bound on the socket runs onData.
RECURSIVE DispatchData(_, _, _)
DispatchData(c, chunk, n) ==
  IF n = 0 THEN c ELSE DispatchData(onData(c, chunk), chunk, n - 1)

\* How many times the event was emitted by the handler that ran last.
RECURSIVE CountEmits(_, _)
CountEmits(es, name) ==
  IF es = <<>> THEN 0
  ELSE (IF Head(es).name = name THEN 1 ELSE 0) + CountEmits(Tail(es), name)

RECURSIVE RunConnectHandlers(_, _)
RunConnectHandlers(c, n) ==
  IF n = 0 THEN c ELSE RunConnectHandlers(_connectionHandler(c), n - 1)


(***************************************************************************)
(* Actions.  A pending microtask (a send() ready to resume) runs before    *)
(* the event loop delivers the next socket event or timer; user calls made *)
(* in the same synchronous block may come before it.                       *)
(***************************************************************************)

\* The user calls connect() (arg Null) or connect(n).
UserConnect(arg) ==
  /\ hist.connectsLeft > 0
  /\ isOurSocket => created < MaxConns
  /\ ~isOurSocket => bound < MaxBind
  /\ Set(connect([Begin(Cur, "connect") EXCEPT
                    !.hist.userConnects = @ + 1,
                    !.hist.connectsLeft = @ - 1,
                    !.hist.userDisconnected = FALSE,
                    !.hist.attempts = 0], arg))

\* A retry timer set by reconnect() fires: connect(retryCount + 1).
RetryTimerFire ==
  /\ retryTimers # <<>>
  /\ created < MaxConns
  /\ ~Ready(Cur)
  /\ Set(connect([Begin(Cur, "retry") EXCEPT
                    !.retryTimers = Tail(@),
                    !.hist.attempts = @ + 1], Head(retryTimers)))

\* The user calls disconnect(); without a connection it throws.
UserDisconnect ==
  /\ conn # NoConn
  /\ Set(disconnect(Begin(Cur, "disconnect")))

\* The user calls destroy().
UserDestroy ==
  /\ conn # NoConn
  /\ Set(destroy(Begin(Cur, "destroy")))

\* The user calls send() with a command of the user's own.
UserSend ==
  /\ conn # NoConn
  /\ hist.sendsLeft > 0
  /\ Set(send([Begin(Cur, "send") EXCEPT !.hist.sendsLeft = @ - 1],
              "PRIVMSG", <<>>))

\* Client.join(channel), for a channel given without a key.
join(c, channel) ==
  send([c EXCEPT !.joinOnce = @ \cup {channel}], "JOIN", channel)

\* The user calls join(channel).
UserJoin(channel) ==
  /\ conn # NoConn
  /\ hist.sendsLeft > 0
  /\ Set(join([Begin(Cur, "join") EXCEPT !.hist.sendsLeft = @ - 1], channel))

\* The user calls whois(nick, callback).
UserWhois(nick) ==
  /\ conn # NoConn
  /\ hist.sendsLeft > 0
  /\ Set(whois([Begin(Cur, "whois") EXCEPT !.hist.sendsLeft = @ - 1],
               nick, "user"))

\* The user makes another Client, without a state and without
\* channelPrefixes: its state is new IrcInMemoryState(DefaultIrcSupported),
\* whose supportedState is that object.  hist.peerSaw is what the new client
\* finds in it.
NewClient ==
  /\ peers < MaxPeers
  /\ Set([Begin(Cur, "newClient") EXCEPT !.peers = @ + 1,
                                         !.hist.peerSaw = defaultSupported])

\* The user calls removeChanData(name).
UserRemoveChanData(name) ==
  LET c == BeginWith(Cur, "removeChanData", [command |-> "", args |-> <<name>>])
  IN /\ Set(removeChanData(c, name))

\* The user keeps state.capabilities.serialise() and makes a new
\* IrcCapabilities from it, as a bridge does across a restart: hist.saved
\* is what was kept, hist.restored what the new object serialises to.
UserSerialise ==
  LET data == serialise(Cur)
  IN Set([Begin(Cur, "serialise") EXCEPT
            !.hist.saved = data,
            !.hist.restored = serialise(IrcCapabilities(data))])

\* The oldest pending send() resumes.
RunTask ==
  /\ Ready(Cur)
  /\ Set(Settle(Begin(Cur, "task")))

\* The delay of a pending send() is over: its timer resolves delayPromise.
DelayFire ==
  /\ \E i \in 1..Len(queue) : TimerDue(Cur, i)
  /\ ~Ready(Cur)
  /\ Set(FireTimer(Begin(Cur, "delay")))

\* Time passes, when no microtask is pending and no timer has run out.
Tick ==
  /\ now + TickMs <= MaxTime
  /\ ~Ready(Cur)
  /\ \A i \in 1..Len(queue) : ~TimerDue(Cur, i)
  /\ now' = now + TickMs
  /\ UNCHANGED <<opt, isOurSocket, conn, requestedDisconnect, prevClashNick,
                 registered, currentNick, hostMask, nickMod, lastSendTime, queue,
                 chainRejected, capsOnce, serverReady, serverCaps, saslTypes,
                 userOnce, userReady, userCaps, userSaslTypes, whoisData,
                 whoisListeners, chans, modeForPrefix, prefixForMode, supported,
                 sharesDefault, defaultSupported, peers, joinOnce, buffer,
                 retryTimers, phase, ended,
                 bound, boundRetry, connectOnce, wire, destroyed, created, step,
                 emits, hist>>

\* The socket connects: the once('connect') handlers run.
SockConnect ==
  /\ conn # NoConn
  /\ phase = "opening"
  /\ ~Ready(Cur)
  /\ Set(RunConnectHandlers(
           [Begin(Cur, "sockConnect") EXCEPT
              !.phase = IF ended THEN "readOnly" ELSE "open",
              !.connectOnce = 0],
           connectOnce))

\* No MODE line: what hist.pair and hist.pairBefore hold unless the line
\* processed last (pair), or the one before it (pairBefore), was a MODE line;
\* then they hold that line and state.chans as it was before the line.
NoPair == [msg |-> NoMsg, chans |-> NoChans]

\* The server's line msg arrives; h is the history so far, with what the
\* environment notes of this line.
SockDataOver(msg, h) ==
  /\ conn # NoConn
  /\ phase \in {"open", "readOnly"}
  /\ bound > 0
  /\ hist.linesLeft > 0
  /\ ~Ready(Cur)
  /\ Set(Dispatch([BeginWith([Cur EXCEPT !.hist = h], "data", msg) EXCEPT
                     !.hist.linesLeft = @ - 1,
                     !.hist.finals = IF IsFinalLS(msg) THEN @ + 1 ELSE @,
                     !.hist.conflicts =
                        IF msg.command = "err_nicknameinuse" THEN @ + 1 ELSE @,
                     !.hist.welcomed = @ \/ msg.command = "rpl_welcome",
                     !.hist.saslFailed = @ \/ msg.command \in SaslErrors,
                     !.hist.confirmed =
                        IF msg.command = "rpl_welcome" THEN msg.args[1] ELSE @,
                     !.hist.proposed =
                        IF msg.command = "err_nicknameinuse" THEN TRUE
                        ELSE IF msg.command = "rpl_welcome" THEN FALSE ELSE @,
                     !.hist.pairBefore =
                        IF step.op = "data" THEN hist.pair ELSE NoPair,
                     !.hist.pair =
                        IF msg.command = "MODE"
                          THEN [msg |-> msg, chans |-> chans] ELSE NoPair],
                  "data", msg, bound))

\* The server sends a CAP LS or CAP ACK line: hist.listed keeps the tokens
\* of the lines of each kind, in the order they came, and whether a CAP LS
\* line without '*' has come.
SockCap(msg) ==
  LET sub == IF Arg(msg, 1) = LS THEN "LS" ELSE "ACK"
      parts == SubSeq(msg.args, 3, Len(msg.args))
  IN SockDataOver(msg, [hist EXCEPT
                          !.listed[sub] = @ \o CapabilityString(parts),
                          !.listed.complete = @ \/ IsFinalLS(msg)])

\* The same; random is what Math.random() gives the handler, if it asks.
SockDataWith(msg, random) == SockDataOver(msg, [hist EXCEPT !.random = random])

SockData(msg) == SockDataWith(msg, 0)

\* The server sends an rpl_isupport line with the arguments args, and later
\* sends the lines it has sent once more, in the same order: hist.batch
\* holds the lines, hist.resent counts those sent again, hist.after is the
\* supported state when the first of them was sent again.
ISupport(args) == [command |-> "rpl_isupport", nick |-> NoNick, args |-> args]

SockISupport(args) ==
  /\ hist.resent = 0
  /\ SockDataOver(ISupport(args), [hist EXCEPT !.batch = Append(@, args)])

SockISupportAgain ==
  /\ hist.resent < Len(hist.batch)
  /\ SockDataOver(ISupport(hist.batch[hist.resent + 1]),
                  [hist EXCEPT !.resent = @ + 1,
                               !.after = IF hist.resent = 0 THEN supported ELSE @])

\* The socket delivers a chunk of bytes: 'data'.
SockChunk(chunk) ==
  /\ conn # NoConn
  /\ phase \in {"open", "readOnly"}
  /\ bound > 0
  /\ hist.bytesLeft >= Len(chunk)
  /\ ~Ready(Cur)
  /\ LET c == DispatchData([Begin(Cur, "chunk") EXCEPT
                              !.hist.bytesLeft = @ - Len(chunk),
                              !.hist.chunks = @ + 1,
                              !.hist.delivered = @ \o chunk],
                           chunk, bound)
     IN Set([c EXCEPT !.hist.regs = @ + CountEmits(c.emits, "registered")])

\* The peer ends the stream: 'end'.
SockEnd ==
  /\ conn # NoConn
  /\ phase \in {"open", "readOnly"}
  /\ ~Ready(Cur)
  /\ Set(Dispatch([Begin(Cur, "end") EXCEPT !.phase = "ended"],
                  "end", NoMsg, bound))

\* The socket closes: 'close', once in a socket's life.
SockClose ==
  /\ conn # NoConn
  /\ phase \in {"opening", "open", "readOnly", "ended"}
  /\ ~Ready(Cur)
  /\ Set(Dispatch([Begin(Cur, "close") EXCEPT !.phase = "closed"],
                  "close", NoMsg, bound))

\* The socket has been idle for its timeout: 'timeout'; it stays as it is.
SockTimeout ==
  /\ conn # NoConn
  /\ phase \in {"opening", "open", "readOnly"}
  /\ Len(retryTimers) < MaxTimers
  /\ ~Ready(Cur)
  /\ Set(Dispatch(Begin(Cur, "timeout"), "timeout", NoMsg, bound))

(***************************************************************************)
(* The session: a client from construction on, flood protection off.       *)
(***************************************************************************)
\* DefaultIrcSupported, the fields the model follows.
DefaultIrcSupported ==
  [casemapping |-> "ascii",
   modes |-> [a |-> <<>>, b |-> <<>>, c |-> <<>>, d |-> <<>>],
   types |-> <<>>, usermodepriority |-> <<>>, extra |-> <<>>]

\* Nothing flushed yet.
NoSnapshot == [registered |-> FALSE]

\* The history at construction; connects, sends and lines are what the
\* environment may still do: user connect() calls, user send() calls and
\* inbound lines.
Hist0(connects, sends, lines) ==
  [sendCalls |-> 0, outcome |-> "none", connectsLeft |-> connects,
   sendsLeft |-> sends, linesLeft |-> lines, userConnects |-> 0, userDisconnected |-> FALSE, attempts |-> 0,
   fresh |-> FALSE, base |-> 0, handler |-> "none", finals |-> 0,
   conflicts |-> 0, welcomed |-> FALSE, confirmed |-> <<>>, proposed |-> FALSE,
   saslFailed |-> FALSE, bytesLeft |-> 0, chunks |-> 0, delivered |-> <<>>,
   raws |-> <<>>, regs |-> 0, pair |-> NoPair, pairBefore |-> NoPair,
   flushes |-> 0, flushed |-> NoSnapshot, seen |-> <<>>, random |-> 0,
   joined |-> {}, batch |-> <<>>, resent |-> 0, after |-> DefaultIrcSupported,
   capEmits |-> <<>>, called |-> <<>>, saved |-> <<>>, restored |-> <<>>,
   listed |-> [LS |-> <<>>, ACK |-> <<>>, complete |-> FALSE],
   whoisCalls |-> 0, scheduled |-> 0, aborts |-> 0,
   peerSaw |-> DefaultIrcSupported]

NoWebirc == [ip |-> FALSE, pass |-> FALSE, host |-> FALSE]
FullWebirc == [ip |-> TRUE, pass |-> TRUE, host |-> TRUE]

Nick0 == <<"a">>

\* new IrcInMemoryState(DefaultIrcSupported), in a process that has not
\* changed that object: supportedState is the object itself.
FreshState ==
  [registered |-> FALSE, currentNick |-> <<>>, hostMask |-> <<>>, nickMod |-> 0,
   serverReady |-> FALSE, serverCaps |-> <<>>, saslTypes |-> <<>>,
   userReady |-> FALSE, userCaps |-> <<>>, userSaslTypes |-> <<>>,
   whoisData |-> NoChans,
   chans |-> NoChans, modeForPrefix |-> NoChans, prefixForMode |-> NoChans,
   supported |-> DefaultIrcSupported, sharesDefault |-> TRUE]

\* The state the constructor leaves when it is given the state st
\* (autoConnect false; with autoConnect the constructor goes on to call
\* connect()).
ConstructedOver(o, ours, ph, h, st) ==
  /\ opt = o
  /\ isOurSocket = ours
  /\ conn = IF ours THEN NoConn ELSE ExtConn
  /\ requestedDisconnect = FALSE
  /\ prevClashNick = <<>>
  /\ registered = st.registered
  /\ currentNick = IF st.currentNick = <<>> THEN Nick0 ELSE st.currentNick
  /\ hostMask = st.hostMask
  /\ nickMod = st.nickMod
  /\ lastSendTime = 0
  /\ queue = <<>>
  /\ chainRejected = FALSE
  /\ capsOnce = TRUE
  /\ serverReady = st.serverReady
  /\ serverCaps = st.serverCaps
  /\ saslTypes = st.saslTypes
  /\ userOnce = TRUE
  /\ userReady = st.userReady
  /\ userCaps = st.userCaps
  /\ userSaslTypes = st.userSaslTypes
  /\ whoisData = st.whoisData
  /\ whoisListeners = <<>>
  /\ chans = st.chans
  /\ modeForPrefix = st.modeForPrefix
  /\ prefixForMode = st.prefixForMode
  /\ supported = st.supported
  /\ sharesDefault = st.sharesDefault
  /\ defaultSupported = DefaultIrcSupported
  /\ peers = 0
  /\ joinOnce = {}
  /\ buffer = <<>>
  /\ retryTimers = <<>>
  /\ phase = ph
  /\ ended = FALSE
  /\ bound = 0
  /\ boundRetry = 0
  /\ connectOnce = 0
  /\ wire = <<>>
  /\ destroyed = {}
  /\ created = 0
  /\ now = StartTime
  /\ step = [op |-> "new", msg |-> NoMsg]
  /\ emits = <<>>
  /\ hist = [h EXCEPT !.flushed =
                [registered |-> st.registered,
                 currentNick |-> IF st.currentNick = <<>> THEN Nick0
                                 ELSE st.currentNick,
                 hostMask |-> st.hostMask, chans |-> st.chans,
                 supported |-> st.supported]]

\* The state the constructor leaves when it is given no state.
Constructed(o, ours, ph, h) == ConstructedOver(o, ours, ph, h, FreshState)

Opts(sasls, passwords, webircs, floods, delays, retries) ==
  [sasl : sasls, saslType : {"PLAIN"}, password : passwords, webirc : webircs,
   floodProtection : floods, floodProtectionDelay : delays,
   retryCount : retries]

Welcome0 == [command |-> "rpl_welcome", args |-> <<Nick0, Nick0>>]

(***************************************************************************)
(* Spec: the life of the connection.  The client is given a socket or      *)
(* makes its own; the socket connects, ends, closes and times out; the     *)
(* user connects, disconnects and destroys; retry timers fire.             *)
(***************************************************************************)
Init ==
  \E o \in Opts({FALSE}, {FALSE}, {NoWebirc}, {FALSE}, {0}, {Null, 0, 2}),
     ours \in BOOLEAN, ph \in {"opening", "open"} :
    Constructed(o, ours, IF ours THEN "none" ELSE ph, Hist0(MaxConns, 0, LifeLines))

Next ==
  \/ \E arg \in {Null, 0} : UserConnect(arg)
  \/ RetryTimerFire
  \/ UserDisconnect
  \/ UserDestroy
  \/ SockConnect
  \/ SockData(Welcome0)
  \/ RunTask
  \/ SockEnd
  \/ SockClose
  \/ SockTimeout

Spec == Init /\ [][Next]_vars

(***************************************************************************)
(* Claims about the life of the connection (checked under Spec).           *)
(***************************************************************************)
Emitted(name, arg) == \E i \in 1..Len(emits) : emits[i] = [name |-> name, arg |-> arg]

EmittedAny(name) == \E i \in 1..Len(emits) : emits[i].name = name

\* C4 (as stated): on a socket the client made, abort is emitted only with a
\* numeric retryCount N, and only when N reconnect attempts have been made
\* since the user's connect(); with retryCount null it is never emitted.
C4_AbortOnlyAfterRetryCountAttempts ==
  (isOurSocket /\ EmittedAny("abort"))
    => /\ opt.retryCount # Null
       /\ Emitted("abort", opt.retryCount)
       /\ hist.attempts = opt.retryCount

\* C5 (as stated): from disconnect() until the user's next connect(), a client
\* that owns its socket creates no socket and emits no abort.
C5_NoReconnectAfterDisconnect ==
  [][(isOurSocket /\ hist.userDisconnected /\ hist.userDisconnected')
       => (created' = created /\ ~EmittedAny("abort")')]_vars

C12_UnregisteredUntilWelcome ==
  [][/\ (step'.op \in {"end", "close", "timeout"} /\ bound' > 0) => ~registered'
     /\ (~registered /\ registered')
          => step'.op = "data" /\ step'.msg.command = "rpl_welcome"]_vars

\* C12's case: a socket on which the client had registered times out, ends
\* or closes, and state.registered is false.
C12_Witness ==
  /\ step.op \in {"end", "close", "timeout"}
  /\ bound > 0
  /\ hist.welcomed
  /\ ~registered

(***************************************************************************)
(* SpecHandshake: registration.  The client makes its own socket, with or  *)
(* without sasl, a server password and WEBIRC; the user may send before    *)
(* the socket has connected; the server answers CAP LS in one or several   *)
(* lines and welcomes the client; the socket may close and be replaced.    *)
(***************************************************************************)
HandshakeConnects == 1
HandshakeLines == 2
HandshakeSends == 1

HostlessWebirc == [ip |-> TRUE, pass |-> TRUE, host |-> FALSE]

Caps == <<"c">>
CapFinal == [command |-> "CAP", args |-> <<Star, LS, Caps>>]
CapMore == [command |-> "CAP", args |-> <<Star, LS, Star, Caps>>]

\* Plain; password and WEBIRC; sasl with a password and a WEBIRC option
\* that lacks its host; sasl alone.
HandshakeOpts ==
  Opts({FALSE}, {FALSE}, {NoWebirc}, {FALSE}, {0}, {Null})
    \cup Opts({FALSE}, {TRUE}, {FullWebirc}, {FALSE}, {0}, {Null})
    \cup Opts({TRUE}, {TRUE}, {HostlessWebirc}, {FALSE}, {0}, {Null})
    \cup Opts({TRUE}, {FALSE}, {NoWebirc}, {FALSE}, {0}, {Null})

InitHandshake ==
  \E o \in HandshakeOpts :
    Constructed(o, TRUE, "none",
                Hist0(HandshakeConnects, HandshakeSends, HandshakeLines))

NextHandshake ==
  \/ UserConnect(Null)
  \/ UserSend
  \/ RunTask
  \/ SockConnect
  \/ \E msg \in {CapFinal, CapMore, Welcome0} : SockData(msg)
  \/ UserDisconnect
  \/ SockClose
  \/ RetryTimerFire

SpecHandshake == InitHandshake /\ [][NextHandshake]_vars

(***************************************************************************)
(* Claims about registration (checked under SpecHandshake).                *)
(***************************************************************************)
\* The commands of the lines written since the last connect() call.
WrittenSinceConnect ==
  [i \in 1..(Len(wire) - hist.base) |-> wire[hist.base + i].cmd]

\* The handshake the options call for.
ExpectedHandshake ==
  (IF opt.webirc.ip /\ opt.webirc.pass /\ opt.webirc.host
     THEN <<"WEBIRC">> ELSE <<>>)
    \o (IF opt.password /\ ~opt.sasl THEN <<"PASS">> ELSE <<>>)
    \o <<"CAP LS 302", "NICK", "USER">>

\* The handshake stands in the lines written since connect() after k lines.
HandshakeAt(k) ==
  /\ k + Len(ExpectedHandshake) <= Len(WrittenSinceConnect)
  /\ SubSeq(WrittenSinceConnect, k + 1, k + Len(ExpectedHandshake))
       = ExpectedHandshake
  /\ wire[hist.base + k + Len(ExpectedHandshake) - 1].arg = Nick0

C8_CapLsAnswered ==
  (/\ isOurSocket
   /\ step.op = "data"
   /\ IsFinalLS(step.msg)
   /\ hist.finals = 1
   /\ ~requestedDisconnect)
    => IF opt.sasl
         THEN \E i \in 1..Len(queue) :
                queue[i].cmd = "CAP REQ" /\ queue[i].arg = SaslCap
         ELSE wire # <<>> /\ wire[Len(wire)].cmd = "CAP END"

(***************************************************************************)
(* SpecSend: the send pipeline in time.  The client connects; the user     *)
(* sends, with flood protection off or on; the server pings, with and      *)
(* without an argument; the user disconnects; the clock advances and the   *)
(* delay timers of pending sends run out.                                  *)
(***************************************************************************)
SendConnects == 1
SendSends == 2
SendLines == 1

Ping0 == [command |-> "PING", args |-> <<<<"x">>>>]
PingBare == [command |-> "PING", args |-> <<>>]

InitSend ==
  \E o \in Opts({FALSE}, {FALSE}, {NoWebirc}, {FALSE}, {0}, {Null})
            \cup Opts({FALSE}, {FALSE}, {NoWebirc}, {TRUE},
                      {TickMs, 2 * TickMs}, {Null}) :
    Constructed(o, TRUE, "none", Hist0(SendConnects, SendSends, SendLines))

NextSend ==
  \/ UserConnect(Null)
  \/ SockConnect
  \/ UserSend
  \/ RunTask
  \/ DelayFire
  \/ Tick
  \/ \E msg \in {Ping0, PingBare} : SockData(msg)
  \/ UserDisconnect

SpecSend == InitSend /\ [][NextSend]_vars

(***************************************************************************)
(* Claims about the send pipeline (checked under SpecSend).                *)
(***************************************************************************)
\* The lines written through send(), oldest first.
SentLines == SelectSeq(wire, LAMBDA w : w.seq > 0)

\* C1: the lines written through send() are on the socket in the order of
\* their send() calls: a line of a later call never stands before a line of
\* an earlier call.
C1_SendOrder ==
  \A i, j \in 1..Len(SentLines) :
    i < j => SentLines[i].seq < SentLines[j].seq

\* C1's case: with flood protection on, two lines of send() calls have been
\* written at different times.
C1_Witness ==
  /\ opt.floodProtection
  /\ Len(SentLines) >= 2
  /\ SentLines[1].at < SentLines[2].at

\* C3 (as stated): while a requested disconnect stands, nothing is written,
\* and a pending send() of a well-formed line that resumes completes without
\* writing and without raising.
C3_DroppedSilently ==
  [][(requestedDisconnect /\ requestedDisconnect')
       => /\ wire' = wire
          /\ (Len(queue') < Len(queue) /\ Head(queue).arg # Undefined)
               => hist'.outcome = "dropped"]_vars

\* C7 (as stated): with flood protection on and a delay above MIN_DELAY_MS,
\* two lines written one after the other through send() are at least
\* floodProtectionDelay apart.
C7_FloodSpacing ==
  (opt.floodProtection /\ opt.floodProtectionDelay > MIN_DELAY_MS)
    => \A i \in 1..(Len(SentLines) - 1) :
         SentLines[i + 1].at - SentLines[i].at >= opt.floodProtectionDelay

(***************************************************************************)
(* SpecNick: the nick.  The client connects on its own socket; the server  *)
(* refuses nicks (err_nicknameinuse, naming one nick or another) and       *)
(* welcomes the client under one nick or another, with one text or         *)
(* another.                                                                *)
(***************************************************************************)
NickLines == 3

Nick1 == <<"a", "1">>
Nick12 == <<"a", "1", "2">>

WelcomeTexts ==
  {<<"h">>, <<"x", " ", "h">>, <<"x", " ", " ", "h", "h">>, <<" ", "h">>,
   <<"h", " ", "x">>, <<"h", " ">>}

Welcomes ==
  {[command |-> "rpl_welcome", args |-> <<n, t>>] :
     n \in {Nick0, Nick1}, t \in WelcomeTexts}

NickInUse ==
  {[command |-> "err_nicknameinuse", args |-> <<Star, n, <<"x">>>>] :
     n \in {Nick0, Nick1, Nick12}}

InitNick ==
  \E o \in Opts({FALSE}, {FALSE}, {NoWebirc}, {FALSE}, {0}, {Null}) :
    Constructed(o, TRUE, "none", Hist0(1, 0, NickLines))

NextNick ==
  \/ UserConnect(Null)
  \/ SockConnect
  \/ \E msg \in Welcomes : SockData(msg)
  \/ \E msg \in NickInUse : SockData(msg)
  \/ RunTask

SpecNick == InitNick /\ [][NextNick]_vars

(***************************************************************************)
(* Claims about the nick (checked under SpecNick).                         *)
(***************************************************************************)
\* The text ends with a word: it is not empty and does not end in a space.
EndsWithWord(t) == t # <<>> /\ t[Len(t)] # " "

\* The word a text ends with: what follows its last space.
LastWord(t) ==
  LET k == CHOOSE k \in 0..Len(t) :
             /\ \A i \in (k + 1)..Len(t) : t[i] # " "
             /\ k = 0 \/ t[k] = " "
  IN SubSeq(t, k + 1, Len(t))

\* C9: when an rpl_welcome with first argument N and a text ending with the
\* word H has been processed, the nick is N, the hostmask is H,
\* maxLineLength is 497 - Len(N) - Len(H), and registered was emitted
\* exactly once for the line.
C9_WelcomeSetsNickAndHostMask ==
  (/\ step.op = "data"
   /\ step.msg.command = "rpl_welcome"
   /\ EndsWithWord(step.msg.args[2]))
    => /\ currentNick = step.msg.args[1]
       /\ hostMask = LastWord(step.msg.args[2])
       /\ maxLineLength(Cur)
            = 497 - Len(step.msg.args[1]) - Len(LastWord(step.msg.args[2]))
       /\ Cardinality({i \in 1..Len(emits) : emits[i].name = "registered"}) = 1
       /\ registered

\* C9's case: a welcome under the nick a1, with a text of several words,
\* processed after an err_nicknameinuse reply.
C9_Witness ==
  /\ step.op = "data"
  /\ step.msg.command = "rpl_welcome"
  /\ step.msg.args = <<Nick1, <<"x", " ", " ", "h", "h">>>>
  /\ hist.conflicts > 0
  /\ hostMask = <<"h", "h">>
  /\ maxLineLength(Cur) = 493

\* C10 (as stated): before any welcome, the k-th err_nicknameinuse reply
\* makes the client write NICK N<k>: the requested nick followed by the
\* decimal counter k.
C10_KthConflictSendsNk ==
  (/\ step.op = "data"
   /\ step.msg.command = "err_nicknameinuse"
   /\ ~hist.welcomed)
    => /\ wire # <<>>
       /\ wire[Len(wire)].cmd = "NICK"
       /\ wire[Len(wire)].arg = Nick0 \o Decimal(hist.conflicts)

\* The argument of the last NICK line written, the requested nick when
\* none was written.
LastNickWritten ==
  LET nicks == SelectSeq(wire, LAMBDA w : w.cmd = "NICK")
  IN IF nicks = <<>> THEN Nick0 ELSE nicks[Len(nicks)].arg

ResumeConnects == 2
ResumeLines == 2

\* The state an earlier client left after registering as a1.
RegisteredState ==
  [registered |-> TRUE, currentNick |-> Nick1, hostMask |-> <<"h">>,
   nickMod |-> 1, serverReady |-> TRUE, serverCaps |-> <<"c", "sasl">>,
   saslTypes |-> <<>>, userReady |-> FALSE, userCaps |-> <<>>,
   userSaslTypes |-> <<>>, whoisData |-> NoChans,
   chans |-> NoChans, modeForPrefix |-> NoChans, prefixForMode |-> NoChans,
   supported |-> DefaultIrcSupported, sharesDefault |-> FALSE]

InitResume ==
  \E o \in Opts({FALSE}, {FALSE, TRUE}, {NoWebirc}, {FALSE}, {0}, {Null}),
     st \in {FreshState, RegisteredState} :
    ConstructedOver(o, FALSE, "open", Hist0(ResumeConnects, 0, ResumeLines), st)

NextResume ==
  \/ UserConnect(Null)
  \/ UserDestroy
  \/ \E msg \in {Ping0, CapFinal, Welcome0} : SockData(msg)
  \/ RunTask
  \/ SockEnd
  \/ SockClose

SpecResume == InitResume /\ [][NextResume]_vars

(***************************************************************************)
(* Claims about a session taken over (checked under SpecResume).           *)
(***************************************************************************)
\* C11: a connect() on a handed-over socket that finds state.registered true
\* emits registered, exactly once and nothing else, and from that call until
\* the next connect() no handshake line (CAP LS, NICK, USER, PASS) is
\* written on the socket.
C11_ResumedSessionSkipsHandshake ==
  (~isOurSocket /\ hist.userConnects > 0 /\ ~hist.fresh)
    => /\ step.op = "connect" => emits = <<[name |-> "registered", arg |-> Null]>>
       /\ hist.handler = "none"
       /\ \A i \in 1..Len(WrittenSinceConnect) :
            WrittenSinceConnect[i] \notin {"CAP LS 302", "NICK", "USER", "PASS"}

\* C11's case: the first connect() of a client built over a registered
\* state has emitted registered and written nothing.
C11_Witness ==
  /\ ~isOurSocket
  /\ step.op = "connect"
  /\ hist.userConnects = 1
  /\ ~hist.fresh
  /\ Emitted("registered", Null)
  /\ wire = <<>>

(***************************************************************************)
(* SpecSasl: authentication.  The client connects with sasl on, as PLAIN   *)
(* or EXTERNAL; the server lists its capabilities with or without SASL     *)
(* mechanisms, acknowledges the request, prompts with AUTHENTICATE + and   *)
(* reports success or one of the four failures, in any order; the user may *)
(* disconnect.                                                             *)
(***************************************************************************)
SaslLines == 4

CapPlainExternal ==
  [command |-> "CAP", args |-> <<Star, LS, <<"sasl=plain,EXTERNAL", "c">>>>]
CapExternal == [command |-> "CAP", args |-> <<Star, LS, <<"c", "sasl=EXTERNAL">>>>]
CapAck == [command |-> "CAP", args |-> <<Star, ACK, <<"sasl">>>>]
AuthenticatePlus == [command |-> "AUTHENTICATE", args |-> <<Plus>>]
SaslOutcomes ==
  {[command |-> n, args |-> <<Nick0, <<"x">>>>] :
     n \in SaslErrors \cup {"rpl_saslsuccess"}}

InitSasl ==
  \E o \in Opts({TRUE}, {TRUE}, {NoWebirc}, {FALSE}, {0}, {Null}),
     t \in {"PLAIN", "EXTERNAL"} :
    Constructed([o EXCEPT !.saslType = t], TRUE, "none", Hist0(1, 0, SaslLines))

NextSasl ==
  \/ UserConnect(Null)
  \/ SockConnect
  \/ \E msg \in {CapFinal, CapPlainExternal, CapExternal, CapAck} : SockData(msg)
  \/ SockData(AuthenticatePlus)
  \/ \E msg \in SaslOutcomes : SockData(msg)
  \/ RunTask
  \/ UserDisconnect

SpecSasl == InitSasl /\ [][NextSasl]_vars

(***************************************************************************)
(* Claims about authentication (checked under SpecSasl).                   *)
(***************************************************************************)
\* C14 (as stated): when a SASL outcome numeric is processed and no
\* disconnect is requested, CAP END is written, after sasl_error was emitted
\* for a failure and with no event for rpl_saslsuccess; from a failure
\* numeric on, no line received makes the client write AUTHENTICATE.
C14_SaslOutcomeEndsCap ==
  [][hist'.linesLeft < hist.linesLeft
       => /\ (step'.msg.command = "rpl_saslsuccess" /\ ~requestedDisconnect)
               => /\ Len(wire') = Len(wire) + 1
                  /\ wire'[Len(wire')].cmd = "CAP END"
                  /\ emits' = <<>>
          /\ (step'.msg.command \in SaslErrors /\ ~requestedDisconnect)
               => /\ Len(wire') = Len(wire) + 1
                  /\ wire'[Len(wire')].cmd = "CAP END"
                  /\ emits' = <<[name |-> "sasl_error", arg |-> step'.msg.command]>>
          /\ hist'.saslFailed
               => \A i \in (Len(wire) + 1)..Len(wire') :
                    wire'[i].cmd # "AUTHENTICATE"]_vars

\* What the code guarantees in place of C14's last part: after a failure
\* numeric the client still writes AUTHENTICATE when the server prompts it,
\* in answer to an AUTHENTICATE + line and to the first CAP ACK, and to no
\* other line.
SaslOutcomeEndsCapUnprompted ==
  [][hist'.linesLeft < hist.linesLeft
       => /\ (step'.msg.command = "rpl_saslsuccess" /\ ~requestedDisconnect)
               => /\ Len(wire') = Len(wire) + 1
                  /\ wire'[Len(wire')].cmd = "CAP END"
                  /\ emits' = <<>>
          /\ (step'.msg.command \in SaslErrors /\ ~requestedDisconnect)
               => /\ Len(wire') = Len(wire) + 1
                  /\ wire'[Len(wire')].cmd = "CAP END"
                  /\ emits' = <<[name |-> "sasl_error", arg |-> step'.msg.command]>>
          /\ (/\ hist'.saslFailed
              /\ \E i \in (Len(wire) + 1)..Len(wire') :
                   wire'[i].cmd = "AUTHENTICATE")
               => \/ step'.msg = AuthenticatePlus
                  \/ step'.msg = CapAck /\ userOnce /\ ~userOnce']_vars

\* The case of C14's first part: after the capability list, the acknowledgement and the
\* prompt, the client has sent its credentials; the server reports a
\* failure; sasl_error is emitted and CAP END written.
SaslFailureReported ==
  /\ step.op = "data"
  /\ step.msg.command \in SaslErrors
  /\ EmittedAny("sasl_error")
  /\ Len(wire) >= 3
  /\ wire[Len(wire)].cmd = "CAP END"
  /\ wire[Len(wire) - 1] = [cmd |-> "AUTHENTICATE", arg |-> Credentials,
                             seq |-> 0, at |-> now]
  /\ wire[Len(wire) - 2].cmd = "AUTHENTICATE"

(***************************************************************************)
(* SpecPing: keep-alive.  The client connects without flood protection;    *)
(* the server pings with two different arguments and without one; the user *)
(* may disconnect.  A resumed send() is a microtask, which the event loop  *)
(* always runs: RunTask is weakly fair.  Nothing else is.                  *)
(***************************************************************************)
PingLines == 3
PingCalls == PingLines + 5    \* more send() calls than a behaviour makes

Ping1 == [command |-> "PING", args |-> <<<<"y">>>>]
PingArgs == {Arg(Ping0, 0), Arg(Ping1, 0)}

InitPing ==
  \E o \in Opts({FALSE}, {FALSE}, {NoWebirc}, {FALSE}, {0}, {Null}) :
    Constructed(o, TRUE, "none", Hist0(1, 0, PingLines))

NextPing ==
  \/ UserConnect(Null)
  \/ SockConnect
  \/ \E msg \in {Ping0, Ping1, PingBare} : SockData(msg)
  \/ RunTask
  \/ UserDisconnect

SpecPing == InitPing /\ [][NextPing]_vars /\ WF_vars(RunTask)

(***************************************************************************)
(* Claims about keep-alive (checked under SpecPing).                       *)
(***************************************************************************)
\* PING x has just been received as the line whose PONG is send() call n,
\* on an open connection with no disconnect requested.
PingReceived(n, x) ==
  /\ step.op = "data"
  /\ step.msg.command = "PING"
  /\ Len(step.msg.args) > 0
  /\ Arg(step.msg, 0) = x
  /\ hist.sendCalls = n
  /\ IsOpen(Cur)
  /\ ~requestedDisconnect

\* The PONG of send() call n has been written with argument x.
PongWritten(n, x) ==
  \E i \in 1..Len(wire) :
    wire[i].cmd = "PONG" /\ wire[i].seq = n /\ wire[i].arg = x

\* C15: every PING received on an open connection with no disconnect
\* requested is eventually answered by a PONG with the same argument (unless
\* a disconnect is requested in between), and the PONGs on the socket are in
\* the order their PINGs arrived.
C15_PingAnswered ==
  /\ [](\A i, j \in 1..Len(wire) :
          (i < j /\ wire[i].cmd = "PONG" /\ wire[j].cmd = "PONG")
            => wire[i].seq < wire[j].seq)
  /\ \A n \in 1..PingCalls, x \in PingArgs :
       PingReceived(n, x) ~> (PongWritten(n, x) \/ requestedDisconnect)

\* What holds in place of C15: a PING is answered as long as no send()
\* before it has thrown.
PingAnsweredOnCleanChain ==
  /\ [](\A i, j \in 1..Len(wire) :
          (i < j /\ wire[i].cmd = "PONG" /\ wire[j].cmd = "PONG")
            => wire[i].seq < wire[j].seq)
  /\ \A n \in 1..PingCalls, x \in PingArgs :
       (PingReceived(n, x) /\ ~chainRejected)
         ~> (PongWritten(n, x) \/ requestedDisconnect)

(***************************************************************************)
(* SpecData: the inbound byte stream.  The client connects; the socket     *)
(* delivers any bytes (a welcome line, another text, CR and LF) cut in     *)
(* chunks of any length.                                                   *)
(***************************************************************************)
StreamBytes == 5
MaxChunk == 3

Bytes == {WelcomeText, "x", CR, LF}
Chunks == UNION {[1..n -> Bytes] : n \in 1..MaxChunk}

InitData ==
  \E o \in Opts({FALSE}, {FALSE}, {NoWebirc}, {FALSE}, {0}, {Null}) :
    Constructed(o, TRUE, "none",
                [Hist0(1, 0, 0) EXCEPT !.bytesLeft = StreamBytes])

NextData ==
  \/ UserConnect(Null)
  \/ SockConnect
  \/ \E chunk \in Chunks : SockChunk(chunk)
  \/ RunTask

SpecData == InitData /\ [][NextData]_vars

(***************************************************************************)
(* Claims about the inbound stream (checked under SpecData).               *)
(***************************************************************************)
\* The non-empty lines of s that are followed by a CR or an LF, in order.
RECURSIVE TerminatedFrom(_, _, _, _)
TerminatedFrom(s, i, cur, out) ==
  IF i > Len(s) THEN out
  ELSE IF s[i] \in {CR, LF}
    THEN TerminatedFrom(s, i + 1, <<>>,
                        IF cur = <<>> THEN out ELSE Append(out, cur))
    ELSE TerminatedFrom(s, i + 1, Append(cur, s[i]), out)

TerminatedLines(s) == TerminatedFrom(s, 1, <<>>, <<>>)

WelcomeLines(ls) == Cardinality({i \in 1..Len(ls) : ls[i] = <<WelcomeText>>})

\* C16 (as stated): however the bytes are cut in chunks, the raw events
\* emitted so far are, once each and in order, the non-empty terminated lines
\* of the bytes delivered so far, and there is one registered event per
\* welcome line.
C16_EveryTerminatedLineRaw ==
  /\ hist.raws = TerminatedLines(hist.delivered)
  /\ hist.regs = WelcomeLines(hist.raws)

\* C16 (amended): the bytes after the last chunk that ended with a terminator
\* are held in the buffer, terminated lines among them included; the raw
\* events emitted so far are, once each and in order, the non-empty
\* terminated lines of the bytes before them, with one registered event per
\* welcome line; the buffer is empty exactly when the bytes delivered end
\* with a terminator.
C16_TerminatedLinesRawOnFlush ==
  LET flushed == Len(hist.delivered) - Len(buffer)
  IN /\ flushed >= 0
     /\ buffer = SubSeq(hist.delivered, flushed + 1, Len(hist.delivered))
     /\ hist.raws = TerminatedLines(SubSeq(hist.delivered, 1, flushed))
     /\ hist.regs = WelcomeLines(hist.raws)
     /\ buffer = <<>> <=> (hist.delivered = <<>> \/ Last(hist.delivered) \in {CR, LF})

\* C16's case: a welcome line followed by a double CRLF has arrived in more
\* than one chunk and produced one raw event and one registered event.
C16_Witness ==
  /\ hist.delivered = <<WelcomeText, CR, LF, CR, LF>>
  /\ hist.chunks > 1
  /\ hist.raws = <<(<<WelcomeText>>)>>
  /\ hist.regs = 1

(***************************************************************************)
(* SpecChan: channel tracking.  The client, nick a, connects; the server   *)
(* announces PREFIX=(ov)@+ and sends JOIN, PART, KICK, QUIT, NICK, MODE and*)
(* names replies about the client, the users u and v and the channels #c   *)
(* and #D, with KICK sent by a user or by the server itself; the user may  *)
(* call removeChanData.                                                    *)
(***************************************************************************)
ChanLines == 4

Me == Nick0
U == <<"u">>
V == <<"v">>
ChanC == <<"#", "c">>
ChanD == <<"#", "D">>
PrefixOV ==
  [param |-> "PREFIX",
   value |-> [modes |-> <<"o", "v">>, prefixes |-> <<"@", "+">>]]

Msg(cmd, nick, args) == [command |-> cmd, nick |-> nick, args |-> args]

MembershipMessages ==
  {Msg("JOIN", n, <<ch>>) : n \in {Me, U}, ch \in {ChanC, ChanD}}
    \cup {Msg("PART", n, <<ChanC>>) : n \in {Me, U}}
    \cup {Msg("KICK", k, <<ChanC, n>>) : k \in {V, NoNick}, n \in {Me, U}}
    \cup {Msg("QUIT", n, <<>>) : n \in {Me, U}}
    \cup {Msg("NICK", n, <<V>>) : n \in {Me, U}}

NamesMessages ==
  {Msg("rpl_namreply", NoNick, <<Me, <<"=">>, ChanC, names>>) :
     names \in {<<(<<"@", "u">>)>>, <<(<<"u">>), <<"@", "+", "v">>>>}}

ModeMessages ==
  {Msg("MODE", V, <<ChanC, <<sign, x>>, U>>) : sign \in {"+", "-"}, x \in {"o", "v"}}

InitChan ==
  \E o \in Opts({FALSE}, {FALSE}, {NoWebirc}, {FALSE}, {0}, {Null}) :
    Constructed(o, TRUE, "none", Hist0(1, 0, ChanLines))

NextChan ==
  \/ UserConnect(Null)
  \/ SockConnect
  \/ SockData(Msg("rpl_isupport", NoNick, <<Me, PrefixOV>>))
  \/ \E msg \in MembershipMessages : SockData(msg)
  \/ \E msg \in NamesMessages : SockData(msg)
  \/ \E msg \in ModeMessages : SockData(msg)
  \/ UserRemoveChanData(ChanC)

SpecChan == InitChan /\ [][NextChan]_vars

(***************************************************************************)
(* Claims about channel tracking (checked under SpecChan).  A step is the  *)
(* processing of a line when it takes one from the budget of lines.        *)
(***************************************************************************)
\* C17: for a tracked channel and a nick other than our own: after its JOIN
\* the channel's users map has the nick with the empty prefix; after its
\* PART, or a KICK of it, the map does not have it; after its QUIT no
\* channel's map has it; JOIN, PART and KICK leave every other channel as it
\* was.
C17_UsersFollowJoinPartKickQuit ==
  [][hist'.linesLeft < hist.linesLeft
       => LET m == step'.msg
              key == StringToLowerCase(m.args[1])
              others == \A k \in (DOMAIN chans \cup DOMAIN chans') \ {key} :
                          /\ k \in DOMAIN chans
                          /\ k \in DOMAIN chans'
                          /\ chans'[k] = chans[k]
          IN /\ (/\ m.command = "JOIN"
                 /\ m.nick \notin {NoNick, currentNick}
                 /\ key \in DOMAIN chans)
                  => /\ key \in DOMAIN chans'
                     /\ m.nick \in DOMAIN chans'[key].users
                     /\ chans'[key].users[m.nick] = <<>>
                     /\ others
             /\ (/\ m.command = "PART"
                 /\ m.nick \notin {NoNick, currentNick}
                 /\ key \in DOMAIN chans)
                  => /\ key \in DOMAIN chans'
                     /\ m.nick \notin DOMAIN chans'[key].users
                     /\ others
             /\ (/\ m.command = "KICK"
                 /\ m.args[2] # currentNick
                 /\ key \in DOMAIN chans)
                  => /\ key \in DOMAIN chans'
                     /\ m.args[2] \notin DOMAIN chans'[key].users
                     /\ others
             /\ (/\ m.command = "QUIT"
                 /\ m.nick \notin {NoNick, currentNick})
                  => \A k \in DOMAIN chans' :
                       m.nick \notin DOMAIN chans'[k].users]_vars

\* What holds in place of C17: the same, for a KICK only when the line
\* names the user who kicked.
UsersFollowLinesOfUsers ==
  [][hist'.linesLeft < hist.linesLeft
       => LET m == step'.msg
              key == StringToLowerCase(m.args[1])
              others == \A k \in (DOMAIN chans \cup DOMAIN chans') \ {key} :
                          /\ k \in DOMAIN chans
                          /\ k \in DOMAIN chans'
                          /\ chans'[k] = chans[k]
          IN /\ (/\ m.command = "JOIN"
                 /\ m.nick \notin {NoNick, currentNick}
                 /\ key \in DOMAIN chans)
                  => /\ key \in DOMAIN chans'
                     /\ m.nick \in DOMAIN chans'[key].users
                     /\ chans'[key].users[m.nick] = <<>>
                     /\ others
             /\ (/\ m.command = "PART"
                 /\ m.nick \notin {NoNick, currentNick}
                 /\ key \in DOMAIN chans)
                  => /\ key \in DOMAIN chans'
                     /\ m.nick \notin DOMAIN chans'[key].users
                     /\ others
             /\ (/\ m.command = "KICK"
                 /\ m.nick # NoNick
                 /\ m.args[2] # currentNick
                 /\ key \in DOMAIN chans)
                  => /\ key \in DOMAIN chans'
                     /\ m.args[2] \notin DOMAIN chans'[key].users
                     /\ others
             /\ (/\ m.command = "QUIT"
                 /\ m.nick \notin {NoNick, currentNick})
                  => \A k \in DOMAIN chans' :
                       m.nick \notin DOMAIN chans'[k].users]_vars

\* C18: the channel has an entry in state.chans after our own JOIN to it and
\* after a names reply for it; it has none after our own PART from it, a
\* KICK of our nick from it, our own QUIT, or removeChanData of it.
C18_ChanDataLifecycle ==
  [][/\ hist'.linesLeft < hist.linesLeft
        => LET m == step'.msg
           IN /\ (m.command = "JOIN" /\ m.nick = currentNick)
                   => StringToLowerCase(m.args[1]) \in DOMAIN chans'
              /\ m.command = "rpl_namreply"
                   => StringToLowerCase(m.args[3]) \in DOMAIN chans'
              /\ (m.command = "PART" /\ m.nick = currentNick)
                   => StringToLowerCase(m.args[1]) \notin DOMAIN chans'
              /\ (m.command = "KICK" /\ m.args[2] = currentNick)
                   => StringToLowerCase(m.args[1]) \notin DOMAIN chans'
              /\ (m.command = "QUIT" /\ m.nick = currentNick)
                   => DOMAIN chans' = {}
     /\ step'.op = "removeChanData"
        => StringToLowerCase(step'.msg.args[1]) \notin DOMAIN chans']_vars

\* C19: after NICK from O to N, every channel whose users map had O has N
\* with the prefix string O had, and has O no more; when O was our own nick,
\* currentNick is N.
C19_NickRenamesEverywhere ==
  [][(/\ hist'.linesLeft < hist.linesLeft
      /\ step'.msg.command = "NICK"
      /\ step'.msg.nick # NoNick)
       => LET old == step'.msg.nick
              new == step'.msg.args[1]
          IN /\ \A k \in DOMAIN chans :
                  old \in DOMAIN chans[k].users
                    => /\ k \in DOMAIN chans'
                       /\ new \in DOMAIN chans'[k].users
                       /\ chans'[k].users[new] = chans[k].users[old]
                       /\ old \notin DOMAIN chans'[k].users
             /\ old = currentNick => currentNick' = new]_vars

\* C20: after MODE +X nick on a tracked channel, X a prefix mode with prefix
\* P, sent by a user: +mode (channel, by, X, nick) was emitted, and the
\* channel's users map has nick with a prefix string that contains P.
C20_PrefixModeRecorded ==
  [][(/\ hist'.linesLeft < hist.linesLeft
      /\ step'.msg.command = "MODE"
      /\ step'.msg.nick # NoNick
      /\ StringToLowerCase(step'.msg.args[1]) \in DOMAIN chans
      /\ step'.msg.args[2][1] = "+"
      /\ step'.msg.args[2][2] \in DOMAIN prefixForMode)
       => LET m == step'.msg
              key == StringToLowerCase(m.args[1])
              x == m.args[2][2]
              user == m.args[3]
          IN /\ \E i \in 1..Len(emits') :
                  /\ emits'[i].name = "+mode"
                  /\ emits'[i].arg = <<key, m.nick, x, user>>
             /\ user \in DOMAIN chans'[key].users
             /\ Includes(chans'[key].users[user], prefixForMode[x])]_vars

(***************************************************************************)
(* Channel and prefix modes: the client joins #c, the server lists u in it *)
(* under some prefix string, announces the channel's modes and relays MODE *)
(* lines that v sends.                                                     *)
(***************************************************************************)
ModeLines == 5

\* CHANMODES=b,k,l,mn
ChanModesBKL ==
  [param |-> "CHANMODES", value |-> <<(<<"b">>), <<"k">>, <<"l">>, <<"m", "n">>>>]

\* MODE #c +o u and MODE #c -o u, sent by v.
ModeO(sign) == Msg("MODE", V, <<ChanC, <<sign, "o">>, U>>)

\* MODE #c +m and MODE #c -m, sent by v.
ModeM(sign) == Msg("MODE", V, <<ChanC, <<sign, "m">>>>)

\* rpl_namreply for #c listing u under a prefix string.
NamesU == {Msg("rpl_namreply", NoNick, <<Me, <<"=">>, ChanC, <<p \o U>>>>) :
             p \in {<<>>, <<"@">>, <<"+">>, <<"@", "+">>}}

\* rpl_channelmodeis for #c: +m.
ChannelModeIsM == Msg("rpl_channelmodeis", NoNick, <<Me, ChanC, <<"+", "m">>>>)

InitMode ==
  \E o \in Opts({FALSE}, {FALSE}, {NoWebirc}, {FALSE}, {0}, {Null}) :
    Constructed(o, TRUE, "none", Hist0(1, 0, ModeLines))

NextMode ==
  \/ UserConnect(Null)
  \/ SockConnect
  \/ SockData(Msg("rpl_isupport", NoNick, <<Me, PrefixOV, ChanModesBKL>>))
  \/ SockData(Msg("JOIN", Me, <<ChanC>>))
  \/ \E msg \in NamesU : SockData(msg)
  \/ SockData(ChannelModeIsM)
  \/ \E sign \in {"+", "-"} : SockData(ModeO(sign))
  \/ \E sign \in {"+", "-"} : SockData(ModeM(sign))

SpecMode == InitMode /\ [][NextMode]_vars

\* The line processed last is MODE -o u, the line before it was MODE +o u,
\* o is a prefix mode and u was listed in #c before the two lines.
OpThenDeop ==
  /\ step.op = "data"
  /\ step.msg = ModeO("-")
  /\ hist.pairBefore.msg = ModeO("+")
  /\ "o" \in DOMAIN prefixForMode
  /\ ChanC \in DOMAIN hist.pairBefore.chans
  /\ U \in DOMAIN hist.pairBefore.chans[ChanC].users

\* C21 (as stated): MODE +o nick followed by MODE -o nick leaves the prefix
\* string of a listed user as it was before the two lines.
C21_OpDeopRestoresPrefix ==
  OpThenDeop => chans[ChanC].users[U] = hist.pairBefore.chans[ChanC].users[U]

\* C21 (amended): MODE +o nick followed by MODE -o nick leaves the prefix
\* string of a listed user as it was before the two lines when that string
\* had no "@", and otherwise as that string with its "@" taken out.
C21_OpDeopRemovesOp ==
  OpThenDeop
    => LET before == hist.pairBefore.chans[ChanC].users[U]
       IN chans[ChanC].users[U] =
            IF Includes(before, "@") THEN RemoveFirst(before, "@") ELSE before

\* C21's case: u was listed with "@+"; +o and then -o have been processed.
C21_Witness ==
  /\ OpThenDeop
  /\ hist.pairBefore.chans[ChanC].users[U] = <<"@", "+">>
  /\ chans[ChanC].users[U] = <<"+">>

\* The line processed last is MODE #c <sign>m from v, m is a class-d mode
\* and no prefix mode, and #c was tracked when the line arrived.
ModeMProcessed(sign) ==
  /\ step.op = "data"
  /\ step.msg = ModeM(sign)
  /\ Includes(supported.modes.d, "m")
  /\ "m" \notin DOMAIN prefixForMode
  /\ ChanC \in DOMAIN hist.pair.chans

CountOf(str, ch) == Cardinality({i \in 1..Len(str) : str[i] = ch})

\* C22: for a class-d mode m of a tracked channel, after MODE +m channel.mode
\* holds m exactly once and +mode was emitted with an undefined parameter;
\* after MODE -m channel.mode does not hold m and -mode was emitted with an
\* undefined parameter, whether m had been recorded by a MODE line or by
\* rpl_channelmodeis.
C22_ClassDModeToggles ==
  /\ ModeMProcessed("+")
       => /\ CountOf(chans[ChanC].mode, "m") = 1
          /\ Emitted("+mode", <<ChanC, V, "m", Undefined>>)
  /\ ModeMProcessed("-")
       => /\ ~Includes(chans[ChanC].mode, "m")
          /\ Emitted("-mode", <<ChanC, V, "m", Undefined>>)

\* What holds of the code: the same, except that MODE -m takes m out of
\* channel.mode only when a MODE +m line had recorded it.
ClassDModeTogglesAfterModeLine ==
  /\ ModeMProcessed("+")
       => /\ CountOf(chans[ChanC].mode, "m") = 1
          /\ Emitted("+mode", <<ChanC, V, "m", Undefined>>)
  /\ ModeMProcessed("-")
       => /\ "m" \in DOMAIN hist.pair.chans[ChanC].modeParams
             => ~Includes(chans[ChanC].mode, "m")
          /\ Emitted("-mode", <<ChanC, V, "m", Undefined>>)

\* MODE -m was processed on a channel whose mode rpl_channelmodeis had set.
ClassDModeLeftByChannelModeIs ==
  /\ ModeMProcessed("-")
  /\ hist.pair.chans[ChanC].mode = <<"+", "m">>
  /\ chans[ChanC].mode = <<"+", "m">>

(***************************************************************************)
(* Casemapping: the server announces a CASEMAPPING; the client joins and   *)
(* parts channels whose names hold upper case letters and brackets, under  *)
(* either sigil.                                                           *)
(***************************************************************************)
CaseLines == 4

\* #C[ and &C[
HashCBracket == <<"#", "C", "[">>
AmpCBracket == <<"&", "C", "[">>

CaseMapping(value) ==
  Msg("rpl_isupport", NoNick, <<Me, [param |-> "CASEMAPPING", value |-> value]>>)

InitCase ==
  \E o \in Opts({FALSE}, {FALSE}, {NoWebirc}, {FALSE}, {0}, {Null}) :
    Constructed(o, TRUE, "none", Hist0(1, 0, CaseLines))

NextCase ==
  \/ UserConnect(Null)
  \/ SockConnect
  \/ \E value \in {"rfc1459", "strict-rfc1459"} : SockData(CaseMapping(value))
  \/ \E ch \in {HashCBracket, AmpCBracket, ChanC} : SockData(Msg("JOIN", Me, <<ch>>))
  \/ \E ch \in {HashCBracket, AmpCBracket} : SockData(Msg("PART", Me, <<ch>>))

SpecCase == InitCase /\ [][NextCase]_vars

\* C23: every key of state.chans is the channel's name lowercased under the
\* casemapping the server advertises now (ascii, rfc1459 or strict-rfc1459),
\* whatever the channel's sigil and whenever the CASEMAPPING token arrived.
C23_KeysLowercasedUnderCasemapping ==
  supported.casemapping \in knownCaseMappings
    => \A k \in DOMAIN chans :
         k = LowerUnder(chans[k].serverName, supported.casemapping)

\* What holds of the code: every key is its channel's name with the letters
\* in lower case, the brackets as they were sent or as _casemap mapped them
\* when the line arrived.
KeysLowercasedAscii ==
  \A k \in DOMAIN chans : k = StringToLowerCase(chans[k].serverName)

\* &C[ joined on a server that advertises rfc1459: the key keeps the bracket.
AmpChannelKeptBracket ==
  /\ supported.casemapping = "rfc1459"
  /\ step.op = "data" /\ step.msg = Msg("JOIN", Me, <<AmpCBracket>>)
  /\ <<"&", "c", "[">> \in DOMAIN chans

(***************************************************************************)
(* Events named after a channel: the user joins #C[ or &C[, the server     *)
(* announces its channel types and relays JOIN, PART and PRIVMSG lines that *)
(* name the channel as the user did.                                       *)
(***************************************************************************)
JoinLines == 3
JoinCalls == 1

\* CHANTYPES=#&
ChanTypes == [param |-> "CHANTYPES", value |-> <<"#", "&">>]

UpperCaseChannels == {HashCBracket, AmpCBracket}

PerChannelMessages ==
  {Msg(cmd, n, <<ch>>) : cmd \in {"JOIN", "PART"}, n \in {Me, U},
                         ch \in UpperCaseChannels}
    \cup {Msg("PRIVMSG", U, <<ch, <<"x">>>>) : ch \in UpperCaseChannels \cup {Me}}

InitJoin ==
  \E o \in Opts({FALSE}, {FALSE}, {NoWebirc}, {FALSE}, {0}, {Null}) :
    Constructed(o, TRUE, "none", Hist0(1, JoinCalls, JoinLines))

NextJoin ==
  \/ UserConnect(Null)
  \/ SockConnect
  \/ \E ch \in UpperCaseChannels : UserJoin(ch)
  \/ RunTask
  \/ SockData(Msg("rpl_isupport", NoNick, <<Me, ChanTypes>>))
  \/ \E msg \in PerChannelMessages : SockData(msg)

SpecJoin == InitJoin /\ [][NextJoin]_vars

\* The event named after the channel that a line's handler emits.
PerChannelEvent(cmd) ==
  CASE cmd = "JOIN" -> "join<chan>"
    [] cmd = "PART" -> "part<chan>"
    [] cmd = "PRIVMSG" -> "message<chan>"

\* The line processed last is a JOIN, a PART or a PRIVMSG to a channel whose
\* name, as the server sent it, holds an upper case letter.
UpperCaseLine ==
  /\ step.op = "data"
  /\ step.msg \in PerChannelMessages
  /\ step.msg.args[1] \in UpperCaseChannels
  /\ step.msg.command = "PRIVMSG" => Includes(supported.types, step.msg.args[1][1])

\* C24: for a JOIN, PART or channel PRIVMSG whose channel name holds upper
\* case letters, the event named after the channel is emitted under the name
\* as sent and under its lowercase form, so the listener that join(channel)
\* registered under the name as the caller wrote it has run.
C24_PerChannelEventUnderBothNames ==
  UpperCaseLine
    => LET chan == step.msg.args[1]
           name == PerChannelEvent(step.msg.command)
       IN /\ Emitted(name, <<chan, step.msg.nick>>)
          /\ Emitted(name, <<StringToLowerCase(chan), step.msg.nick>>)
          /\ step.msg.command = "JOIN" => chan \notin joinOnce

\* What holds of the code: the event is emitted under the lowercase form,
\* and under the name as sent when the name does not start with '#'.
PerChannelEventUnderLowercase ==
  UpperCaseLine
    => LET chan == step.msg.args[1]
           name == PerChannelEvent(step.msg.command)
       IN /\ Emitted(name, <<StringToLowerCase(chan), step.msg.nick>>)
          /\ chan[1] # "#" => Emitted(name, <<chan, step.msg.nick>>)

\* join('#C[') was called, the server's JOIN #C[ for us has been processed,
\* and the listener of join is still waiting.
JoinListenerLeftWaiting ==
  /\ step.op = "data" /\ step.msg = Msg("JOIN", Me, <<HashCBracket>>)
  /\ HashCBracket \in joinOnce
  /\ <<"#", "c", "[">> \in DOMAIN chans

(***************************************************************************)
(* ISUPPORT: the server sends rpl_isupport lines and then, as in its reply *)
(* to VERSION, sends the same lines once more.                             *)
(***************************************************************************)
SupportLines == 6
BatchLen == 3

\* PREFIX=(ao)!@ and PREFIX=(ao)&@: two servers that show the mode a with
\* different symbols; PREFIX=(ov)@: more modes than symbols.
PrefixAO1 ==
  [param |-> "PREFIX",
   value |-> [modes |-> <<"a", "o">>, prefixes |-> <<"!", "@">>]]
PrefixAO2 ==
  [param |-> "PREFIX",
   value |-> [modes |-> <<"a", "o">>, prefixes |-> <<"&", "@">>]]
PrefixShort ==
  [param |-> "PREFIX", value |-> [modes |-> <<"o", "v">>, prefixes |-> <<"@">>]]

\* CHANMODES=be,k,l with no fourth group, NETWORK=n and two tokens of other
\* names with one value.
ChanModesShort ==
  [param |-> "CHANMODES", value |-> <<(<<"b", "e">>), <<"k">>, <<"l">>>>]
Network == [param |-> "NETWORK", value |-> <<"n">>]
Extras == {[param |-> p, value |-> <<"x">>] : p \in {"EXCEPTS", "INVEX"}}

ISupportArgs ==
  {<<Me, t>> : t \in {PrefixOV, PrefixAO1, PrefixAO2, PrefixShort, ChanModesBKL,
                       ChanModesShort, Network, ChanTypes}}
    \cup {<<Me, t, [param |-> "CASEMAPPING", value |-> "rfc1459"]>> : t \in Extras}

InitSupport ==
  \E o \in Opts({FALSE}, {FALSE}, {NoWebirc}, {FALSE}, {0}, {Null}) :
    Constructed(o, TRUE, "none", Hist0(1, 0, SupportLines))

NextSupport ==
  \/ UserConnect(Null)
  \/ SockConnect
  \/ \E args \in ISupportArgs : Len(hist.batch) < BatchLen /\ SockISupport(args)
  \/ SockISupportAgain

SpecSupport == InitSupport /\ [][NextSupport]_vars

\* The server has sent all its rpl_isupport lines a second time.
AppliedTwice ==
  /\ step.op = "data"
  /\ hist.resent > 0
  /\ hist.resent = Len(hist.batch)

\* C25: when the server has sent its rpl_isupport lines a second time, the
\* supported state is exactly what it was after the first time: nothing was
\* added to extra or to channel.modes.a/b/c/d.
C25_ISupportIdempotent == AppliedTwice => supported = hist.after

\* C25's case: three lines, with PREFIX, CHANMODES and a token that goes to
\* extra, were applied twice.
C25_Witness ==
  /\ AppliedTwice
  /\ hist.resent = 3
  /\ supported.extra = <<(<<"x">>)>>
  /\ supported.modes.b = <<"k", "o", "v">>
  /\ supported.modes.d = <<"m", "n">>

\* C26: modeForPrefix and prefixForMode are inverses of each other:
\* modeForPrefix[p] = m exactly when prefixForMode[m] = p.
C26_PrefixMapsInverse ==
  /\ \A p \in DOMAIN modeForPrefix :
       /\ modeForPrefix[p] \in DOMAIN prefixForMode
       /\ prefixForMode[modeForPrefix[p]] = p
  /\ \A md \in DOMAIN prefixForMode :
       /\ prefixForMode[md] \in DOMAIN modeForPrefix
       /\ modeForPrefix[prefixForMode[md]] = md

\* PREFIX=(ao)!@ and then PREFIX=(ao)&@: '!' still stands for a, whose
\* symbol is '&' now.
StalePrefixKept ==
  /\ "!" \in DOMAIN modeForPrefix /\ modeForPrefix["!"] = "a"
  /\ "a" \in DOMAIN prefixForMode /\ prefixForMode["a"] = "&"

(***************************************************************************)
(* Claims about flush() and about the state a listener sees.               *)
(***************************************************************************)
\* The state a flush would store now.
Live ==
  [registered |-> registered, currentNick |-> currentNick,
   hostMask |-> hostMask, chans |-> chans, supported |-> supported]

\* The handlers of what the socket delivers: its connect, a line, a chunk
\* of bytes, end, close and timeout.
SocketOps == {"sockConnect", "data", "chunk", "end", "close", "timeout"}

\* C27: when the handler of an inbound line or of a socket event has changed
\* registered, currentNick, hostMask, chans or the supported state, flush()
\* was called after the last change: what was flushed is the live state.
C27_FlushFollowsEveryChange ==
  [][(step'.op \in SocketOps /\ Live' # Live) => hist'.flushed = Live']_vars

\* What holds of the code: the same for the handlers of lines and of the
\* socket's connect.
FlushFollowsLineChanges ==
  [][(step'.op \in {"sockConnect", "data", "chunk"} /\ Live' # Live)
       => hist'.flushed = Live']_vars

\* The socket closed on a registered client: registered is false, and the
\* state flushed last says true.
UnregisteredNotFlushed ==
  /\ step.op \in {"end", "close", "timeout"}
  /\ ~registered
  /\ hist.flushed.registered

\* C28: the processing of one inbound message calls flush() at most once.
C28_FlushAtMostOncePerMessage == step.op = "data" => hist.flushes <= 1

\* What holds of the code: at most two calls.
FlushAtMostTwicePerMessage == step.op = "data" => hist.flushes <= 2

\* Our own NICK line was processed with two calls of flush().
OwnNickFlushedTwice ==
  /\ step.op = "data" /\ step.msg = Msg("NICK", Me, <<V>>)
  /\ currentNick = V
  /\ hist.flushes = 2

\* The events of the domain that a line's handler emits.
DomainEvents ==
  {"registered", "join", "part", "kick", "nick", "quit", "+mode", "-mode"}

\* C29: when the handler of an inbound line emits registered, join, part,
\* kick, nick, quit, +mode or -mode, the line's change of the state has been
\* made: a listener that reads the client sees the state the line leaves.
C29_StateAppliedBeforeEvent ==
  step.op = "data"
    => \A i \in 1..Len(emits) :
         emits[i].name \in DomainEvents => hist.seen[i] = Live

\* What holds of the code: the same for join, nick, quit, +mode and -mode.
StateAppliedBeforeLateEvents ==
  step.op = "data"
    => \A i \in 1..Len(emits) :
         emits[i].name \in {"join", "nick", "quit", "+mode", "-mode"}
           => hist.seen[i] = Live

\* PART of u from #c was processed: the listener of part saw u in #c.
PartSeenBeforeRemoval ==
  /\ step.op = "data" /\ step.msg = Msg("PART", U, <<ChanC>>)
  /\ ChanC \in DOMAIN chans
  /\ emits # <<>>
  /\ emits[1].name = "part"
  /\ U \in DOMAIN hist.seen[1].chans[ChanC].users
  /\ U \notin DOMAIN chans[ChanC].users

\* rpl_welcome was processed: the listener of registered saw registered
\* false.
RegisteredSeenUnregistered ==
  /\ step.op = "data" /\ step.msg.command = "rpl_welcome"
  /\ registered
  /\ \E i \in 1..Len(emits) :
       emits[i].name = "registered" /\ ~hist.seen[i].registered

(***************************************************************************)
(* Bad nicknames: the server welcomes the client or refuses its nick with  *)
(* err_erroneusnickname or err_unavailresource; the socket may close, and  *)
(* the client then connects again.                                         *)
(***************************************************************************)
BadNickLines == 2

\* What Math.floor(Math.random() * 1000) may give.
Randoms == {0, 42, 999}

BadNick(cmd) == [command |-> cmd, args |-> <<Star, Nick0, <<"x">>>>]

InitBadNick ==
  \E o \in Opts({FALSE}, {FALSE}, {NoWebirc}, {FALSE}, {0}, {Null}) :
    Constructed(o, TRUE, "none", Hist0(1, 0, BadNickLines))

NextBadNick ==
  \/ UserConnect(Null)
  \/ RetryTimerFire
  \/ SockConnect
  \/ SockData(Welcome0)
  \/ \E cmd \in BadNickname, r \in Randoms : SockDataWith(BadNick(cmd), r)
  \/ RunTask
  \/ SockClose

SpecBadNick == InitBadNick /\ [][NextBadNick]_vars

\* The step processes an err_erroneusnickname or err_unavailresource line.
BadNickStep ==
  /\ step'.op = "data"
  /\ step'.msg.command \in BadNickname
  /\ hist'.linesLeft < hist.linesLeft

\* The step writes NICK enick_<digits>, makes it the current nick and emits
\* no error.
TakesRandomNick ==
  /\ wire' = Append(wire, [cmd |-> "NICK", arg |-> rndNick(hist'.random),
                            seq |-> 0, at |-> now])
  /\ currentNick' = rndNick(hist'.random)
  /\ \A i \in 1..Len(emits') : emits'[i].name # "error"

\* The step emits error with the message and writes nothing.
ReportsBadNick ==
  /\ \E i \in 1..Len(emits') :
       emits'[i] = [name |-> "error", arg |-> step'.msg.command]
  /\ wire' = wire
  /\ currentNick' = currentNick

\* C30: when err_erroneusnickname or err_unavailresource arrives before an
\* rpl_welcome has come on the current connection (a reconnect included),
\* the client writes NICK enick_<digits>, sets currentNick to it and emits no
\* error; when it arrives after registration, the client emits error with
\* the message and writes no NICK.
C30_BadNicknameBeforeWelcome ==
  [][BadNickStep => IF registered THEN ReportsBadNick ELSE TakesRandomNick]_vars

\* What holds of the code: the same with "no rpl_welcome since the client
\* was made" for "no rpl_welcome on the current connection".
BadNicknameByHostMask ==
  [][BadNickStep => IF hostMask # <<>> THEN ReportsBadNick
                                       ELSE TakesRandomNick]_vars

\* On the connection made after a close, before any welcome on it, a bad
\* nickname line was answered with the error event.
BadNickReportedOnReconnect ==
  /\ step.op = "data" /\ step.msg.command \in BadNickname
  /\ ~registered
  /\ created = 2
  /\ Emitted("error", step.msg.command)

\* Before the first welcome a bad nickname line made enick_42 the nick.
RandomNickTaken ==
  /\ step.op = "data" /\ step.msg.command \in BadNickname
  /\ currentNick = rndNick(42)
  /\ wire # <<>> /\ wire[Len(wire)].arg = rndNick(42)
(***************************************************************************)
(* SpecCaps: the capability tracker.  The client connects, with sasl on or *)
(* off; the server sends CAP LS and CAP ACK lines, final ones and          *)
(* continuations, with sasl mechanisms, with a bare sasl token and without *)
(* sasl, in any order and number; the user serialises the tracker and      *)
(* builds a new one from the result.                                       *)
(***************************************************************************)
CapsLines == 4

LsMoreD == [command |-> "CAP", args |-> <<Star, LS, Star, <<"d">>>>]
LsSasl == [command |-> "CAP", args |-> <<Star, LS, <<"sasl", "d">>>>]
AckMore == [command |-> "CAP", args |-> <<Star, ACK, Star, <<"e">>>>]

CapLines == {CapFinal, CapMore, LsMoreD, LsSasl, CapPlainExternal, CapAck, AckMore}

InitCaps ==
  \E o \in Opts({FALSE, TRUE}, {FALSE}, {NoWebirc}, {FALSE}, {0}, {Null}) :
    Constructed(o, TRUE, "none", Hist0(1, 0, CapsLines))

NextCaps ==
  \/ UserConnect(Null)
  \/ SockConnect
  \/ \E msg \in CapLines : SockCap(msg)
  \/ RunTask
  \/ UserSerialise

SpecCaps == InitCaps /\ [][NextCaps]_vars

\* The step processes a CAP line.
CapStep ==
  /\ step'.op = "data"
  /\ step'.msg.command = "CAP"
  /\ hist'.linesLeft < hist.linesLeft

\* The tracker emitted the event name while the last handler ran.
CapEmitted(h, name) == \E i \in 1..Len(h.capEmits) : h.capEmits[i] = name

\* Every token of the lines of kind sub is in caps.
AllListed(h, sub, caps) ==
  \A i \in 1..Len(h.listed[sub]) : Has(caps, h.listed[sub][i])

\* C31: serverCapabilitesReady (userCapabilitesReady) is emitted only by a
\* CAP LS (ACK) line that is final, never by a '*' continuation line, and
\* the capability set then holds the tokens of every line of the reply; so
\* for every reply, not only the first.
C31_ReadyOnlyOnFinalLine ==
  [][CapStep =>
       /\ CapEmitted(hist', "serverCapabilitesReady") =>
            /\ Arg(step'.msg, 1) = LS
            /\ Arg(step'.msg, 2) # Star
            /\ AllListed(hist', "LS", serverCaps')
       /\ CapEmitted(hist', "userCapabilitesReady") =>
            /\ Arg(step'.msg, 1) = ACK
            /\ Arg(step'.msg, 2) # Star
            /\ AllListed(hist', "ACK", userCaps')]_vars

\* What holds of the code: the same for the first reply of each kind; once
\* a reply has completed, every later line of the kind emits the event.
ReadyOnFinalLineOfFirstReply ==
  [][CapStep =>
       /\ CapEmitted(hist', "serverCapabilitesReady") =>
            /\ Arg(step'.msg, 1) = LS
            /\ Arg(step'.msg, 2) # Star \/ serverReady
            /\ AllListed(hist', "LS", serverCaps')
       /\ CapEmitted(hist', "userCapabilitesReady") =>
            /\ Arg(step'.msg, 1) = ACK
            /\ Arg(step'.msg, 2) # Star \/ userReady
            /\ AllListed(hist', "ACK", userCaps')]_vars

\* The continuation line of a second CAP LS reply emitted
\* serverCapabilitesReady.
ReadyOnContinuationLine ==
  /\ step.op = "data" /\ step.msg = LsMoreD
  /\ CapEmitted(hist, "serverCapabilitesReady")
  /\ hist.listed.LS = <<"c", "d">>

\* The server listed the token sasl or a token sasl=...
SaslAdvertised ==
  \E i \in 1..Len(hist.listed.LS) :
    hist.listed.LS[i] = "sasl" \/ SaslList(hist.listed.LS[i]) # <<>>

\* The mechanisms the server listed, as it spelled them.
RECURSIVE Mechanisms(_)
Mechanisms(tokens) ==
  IF tokens = <<>> THEN <<>>
  ELSE SaslList(Head(tokens)) \o Mechanisms(Tail(tokens))

\* The mechanism m is among the listed ones, whatever its case.
Listed(m) ==
  \E i \in 1..Len(Mechanisms(hist.listed.LS)) :
    ToUpperCase(Mechanisms(hist.listed.LS)[i]) = ToUpperCase(m)

Methods == {"PLAIN", "plain", "EXTERNAL", "SCRAM"}

\* C32: once CAP LS is complete, supportsSasl is true exactly when the
\* server listed sasl or sasl=..., and supportsSaslMethod(m, allow) is false
\* when it did not, allow when it listed sasl without mechanisms, and
\* otherwise whether m, in any case, is among the mechanisms; before that
\* both throw.
C32_SupportsSaslIffAdvertised ==
  IF hist.listed.complete
    THEN /\ supportsSasl(Cur) = Returns(SaslAdvertised)
         /\ \A m \in Methods, allow \in BOOLEAN :
              SupportsSaslMethod(Cur, m, allow) =
                Returns(IF ~SaslAdvertised THEN FALSE
                        ELSE IF Mechanisms(hist.listed.LS) = <<>> THEN allow
                        ELSE Listed(m))
    ELSE /\ supportsSasl(Cur) = Throws
         /\ \A m \in Methods, allow \in BOOLEAN :
              SupportsSaslMethod(Cur, m, allow) = Throws

\* What holds of the code: the same with "the server listed anything" for
\* "the server listed sasl": every line adds the token sasl.
SupportsSaslOnceListed ==
  IF hist.listed.complete
    THEN /\ supportsSasl(Cur) = Returns(TRUE)
         /\ \A m \in Methods, allow \in BOOLEAN :
              SupportsSaslMethod(Cur, m, allow) =
                Returns(IF Mechanisms(hist.listed.LS) = <<>> THEN allow
                        ELSE Listed(m))
    ELSE /\ supportsSasl(Cur) = Throws
         /\ \A m \in Methods, allow \in BOOLEAN :
              SupportsSaslMethod(Cur, m, allow) = Throws

\* The server's complete list was 'c' alone and supportsSasl is true.
SaslSupportedUnlisted ==
  /\ hist.listed.complete
  /\ hist.listed.LS = <<"c">>
  /\ supportsSasl(Cur) = Returns(TRUE)
  /\ SupportsSaslMethod(Cur, "PLAIN", TRUE) = Returns(TRUE)

\* C33: a new IrcCapabilities made from c.serialise() serialises to the same
\* four lists as c.
C33_SerialiseRoundTrip ==
  step.op = "serialise" => hist.restored = hist.saved

\* What holds of the code: the user's capabilities come back among the
\* server's, the user's list comes back empty, the two sasl lists come back
\* as they were.
SerialiseMergesUserCaps ==
  step.op = "serialise" =>
    /\ hist.restored.serverCapabilites =
         AddAll(hist.saved.serverCapabilites, hist.saved.userCapabilites)
    /\ hist.restored.userCapabilites = <<>>
    /\ hist.restored.serverCapabilitesSasl = hist.saved.serverCapabilitesSasl
    /\ hist.restored.userCapabilitesSasl = hist.saved.userCapabilitesSasl

\* A tracker with acknowledged capabilities came back without them.
UserCapsLost ==
  /\ step.op = "serialise"
  /\ hist.saved.userCapabilites = <<"e", "sasl">>
  /\ hist.restored.userCapabilites = <<>>
  /\ Has(hist.restored.serverCapabilites, "e")
(***************************************************************************)
(* Claims about duplicates in the supported state (SpecSupport).           *)
(***************************************************************************)
\* No value is at two places of the sequence.
NoDuplicates(seq) ==
  \A i, j \in 1..Len(seq) : seq[i] = seq[j] => i = j

\* C34: after any sequence of rpl_isupport lines, lines that differ from
\* earlier ones included, supportedState.extra has no duplicate entries and
\* each of channel.modes.a, b, c, d has each character at most once.
C34_NoDuplicatesInSupported ==
  /\ NoDuplicates(supported.extra)
  /\ NoDuplicates(supported.modes.a)
  /\ NoDuplicates(supported.modes.b)
  /\ NoDuplicates(supported.modes.c)
  /\ NoDuplicates(supported.modes.d)

\* What holds of the code: extra has no duplicate entries.
ExtraHasNoDuplicates == NoDuplicates(supported.extra)

\* CHANMODES=b,k,l,mn and then CHANMODES=be,k,l: class a is 'bbe'.
ModeCharTwice ==
  /\ supported.modes.a = <<"b", "b", "e">>
  /\ hist.batch = <<(<<Me, ChanModesBKL>>), <<Me, ChanModesShort>>>>
(***************************************************************************)
(* SpecWhois: the user asks for u and for U with a callback; the server    *)
(* welcomes the client and sends rpl_whoisuser, rpl_away and               *)
(* rpl_endofwhois for u and for the client's nick, in any order.           *)
(***************************************************************************)
WhoisLines == 4
WhoisCalls == 2

UpperU == <<"U">>

WhoisUser(n) ==
  [command |-> "rpl_whoisuser",
   args |-> <<Me, n, <<"i">>, <<"h">>, Star, <<"r">>>>]
Away(n) == [command |-> "rpl_away", args |-> <<Me, n, <<"g">>>>]
EndOfWhois(n) == [command |-> "rpl_endofwhois", args |-> <<Me, n, <<"e">>>>]

WhoisMessages ==
  {Welcome0, WhoisUser(U), WhoisUser(Me), Away(U), EndOfWhois(U), EndOfWhois(Me)}

InitWhois ==
  \E o \in Opts({FALSE}, {FALSE}, {NoWebirc}, {FALSE}, {0}, {Null}) :
    Constructed(o, TRUE, "none", Hist0(1, WhoisCalls, WhoisLines))

NextWhois ==
  \/ UserConnect(Null)
  \/ SockConnect
  \/ \E nick \in {U, UpperU} : UserWhois(nick)
  \/ \E msg \in WhoisMessages : SockData(msg)
  \/ RunTask

SpecWhois == InitWhois /\ [][NextWhois]_vars

\* The step processes rpl_endofwhois for nick.
EndOfWhoisStep(nick) ==
  /\ step'.op = "data"
  /\ step'.msg = EndOfWhois(nick)
  /\ hist'.linesLeft < hist.linesLeft

\* The listener is that of a user's whois(nick, callback).
WaitsFor(l, nick) ==
  l.callback = "user" /\ StringToLowerCase(l.nick) = StringToLowerCase(nick)

\* The calls made so far to the callback of the whois() call id.
CallsTo(h, id) == {i \in 1..Len(h.called) : h.called[i].id = id}

\* null, as a callback's argument.
NoInfo == NoChans

\* The step calls the callback of the waiting listener l once, with info,
\* and removes the listener.
CalledBack(l, info) ==
  /\ CallsTo(hist, l.id) = {}
  /\ Cardinality(CallsTo(hist', l.id)) = 1
  /\ \A i \in CallsTo(hist', l.id) : hist'.called[i].info = info
  /\ \A k \in 1..Len(whoisListeners') : whoisListeners'[k] # l

\* C35: after rpl_endofwhois for nick, whoisData has no entry for nick, and
\* the callback of each whois(nick, callback) has been called exactly once,
\* with the record gathered or with null when no reply line came for nick,
\* and its listener is removed.
C35_WhoisCallbackOnce ==
  [][\A nick \in {U, Me} :
       EndOfWhoisStep(nick) =>
         /\ nick \notin DOMAIN whoisData'
         /\ \A k \in 1..Len(whoisListeners) :
              WaitsFor(whoisListeners[k], nick) =>
                CalledBack(whoisListeners[k],
                           IF nick \in DOMAIN whoisData THEN whoisData[nick]
                                                        ELSE NoInfo)]_vars

\* What holds of the code: the same when a reply line has come for nick;
\* when none has, nothing is called and the listeners stay.
WhoisCallbackOnceWhenReplied ==
  [][\A nick \in {U, Me} :
       EndOfWhoisStep(nick) =>
         /\ nick \notin DOMAIN whoisData'
         /\ IF nick \in DOMAIN whoisData
              THEN \A k \in 1..Len(whoisListeners) :
                     WaitsFor(whoisListeners[k], nick) =>
                       CalledBack(whoisListeners[k], whoisData[nick])
              ELSE /\ whoisListeners' = whoisListeners
                   /\ hist'.called = hist.called]_vars

\* A callback was called with the record of u, away text included.
WhoisCalledBack ==
  /\ step.op = "data" /\ step.msg = EndOfWhois(U)
  /\ \E i \in 1..Len(hist.called) :
       /\ Field(hist.called[i].info, "away") = <<"g">>
       /\ Field(hist.called[i].info, "host") = <<"h">>
  /\ whoisListeners = <<>>

\* rpl_endofwhois came for u with no reply line before it: the callback of
\* whois(u) was not called and its listener is still there.
WhoisListenerLeftWaiting ==
  /\ step.op = "data" /\ step.msg = EndOfWhois(U)
  /\ hist.called = <<>>
  /\ whoisListeners = <<[nick |-> U, callback |-> "user", id |-> 1]>>
(***************************************************************************)
(* Claims about a send() that fails (checked under SpecSend).              *)
(***************************************************************************)
\* The step resumes the oldest pending send(), whose own write step does
\* not throw and is not dropped by a requested disconnect.
SoundSendResumes ==
  /\ step'.op = "task"
  /\ Len(queue') < Len(queue)
  /\ ~SendThrows(Cur, queue[ResumeIndex(queue)].arg)
  /\ ~requestedDisconnect

\* The step writes the line of the oldest pending send().
WritesIt ==
  LET t == queue[ResumeIndex(queue)]
  IN /\ wire' = Append(wire, [cmd |-> t.cmd, arg |-> t.arg, seq |-> t.seq,
                              at |-> now])
     /\ hist'.outcome = "written"

\* C36: a send() whose write step throws rejects only its own promise:
\* every send() submitted afterwards is still written to the socket.
C36_FailedSendRejectsOnlyItself ==
  [][SoundSendResumes => WritesIt]_vars

\* What holds of the code: a send() is written as long as no send() before
\* it has thrown.
WrittenOnCleanChain ==
  [][(SoundSendResumes /\ ~chainRejected) => WritesIt]_vars

\* A PING without argument came and the user's two PRIVMSGs, both settled on
\* an open connection with no disconnect requested, are not on the socket.
SendsLostAfterThrow ==
  /\ step.op = "task"
  /\ hist.outcome = "rejected"
  /\ chainRejected
  /\ ~requestedDisconnect /\ IsOpen(Cur)
  /\ queue = <<>>
  /\ hist.sendsLeft = 0
  /\ \A i \in 1..Len(wire) : wire[i].cmd # "PRIVMSG"
(***************************************************************************)
(* Claims about the loss of a connection (checked under Spec).             *)
(***************************************************************************)
\* C37: for one lost connection on a socket the client made, at most one
\* reconnect is scheduled and at most one abort is emitted, also when the
\* socket emits timeout and then close before the retry timer fires; so one
\* new connection is created and the retry count goes up by one.
C37_OneReconnectPerLostConnection ==
  isOurSocket => hist.scheduled <= 1 /\ hist.aborts <= 1

\* What holds of the code: one socket event sets at most one timer and
\* emits at most one abort.
OneReconnectPerSocketEvent ==
  [][isOurSocket =>
       /\ Len(retryTimers') <= Len(retryTimers) + 1
       /\ CountEmits(emits', "abort") <= 1]_vars

\* The socket timed out and then closed: two timers are pending, both for
\* the loss of this socket.
TwoTimersForOneSocket ==
  /\ isOurSocket
  /\ step.op = "close"
  /\ hist.scheduled = 2
  /\ Len(retryTimers) = 2
  /\ retryTimers[1] = retryTimers[2]

\* With retryCount 0 the timeout and the close each emitted abort.
TwoAbortsForOneSocket ==
  /\ isOurSocket
  /\ step.op = "close"
  /\ hist.aborts = 2
  /\ Emitted("abort", 0)
(***************************************************************************)
(* Claims about connect() on a registered state (checked under Spec).      *)
(***************************************************************************)
\* The socket the client made connects, with no disconnect requested.
OwnSocketConnects ==
  /\ isOurSocket
  /\ step'.op = "sockConnect"
  /\ phase = "opening" /\ phase' # "opening"
  /\ ~requestedDisconnect

\* CAP LS, NICK and USER are among the lines written on the socket.
HandshakeWritten ==
  \E i, j, k \in 1..Len(wire) :
    /\ i < j /\ j < k
    /\ wire[i].cmd = "CAP LS 302" /\ wire[j].cmd = "NICK" /\ wire[k].cmd = "USER"

\* C38: whenever connect() has made a new socket of the client's own, the
\* handshake (CAP LS, NICK, USER) is written on it once it connects, and
\* registered is emitted for such a socket only by an rpl_welcome received
\* on it; so too when connect() is called while state.registered is true.
C38_NewSocketGetsHandshake ==
  [][/\ OwnSocketConnects => HandshakeWritten'
     /\ (isOurSocket /\ EmittedAny("registered")')
          => (step'.op = "data" /\ step'.msg.command = "rpl_welcome")]_vars

\* What holds of the code: the same for a connect() that found
\* state.registered false.
NewSocketGetsHandshakeUnlessRegistered ==
  [][/\ (OwnSocketConnects /\ hist.fresh) => HandshakeWritten'
     /\ (isOurSocket /\ EmittedAny("registered")' /\ hist'.fresh)
          => (step'.op = "data" /\ step'.msg.command = "rpl_welcome")]_vars

\* connect() was called on a registered client: it made a second socket
\* and emitted registered at once.
RegisteredWithoutWelcome ==
  /\ isOurSocket
  /\ step.op = "connect"
  /\ created = 2
  /\ Emitted("registered", Null)
  /\ wire = <<>>

\* That socket has connected and nothing was written on it.
NewSocketWithoutHandshake ==
  /\ isOurSocket
  /\ step.op = "sockConnect"
  /\ created = 2
  /\ phase = "open"
  /\ registered
  /\ wire = <<>>
(***************************************************************************)
(* SpecShared: two clients in one process.  The first is made without a    *)
(* state, or with a state whose supportedState is an object of its own; it *)
(* connects and its server sends rpl_isupport lines; a second client is    *)
(* made without a state, before or after them.                             *)
(***************************************************************************)
SharedLines == 3

\* A state the user made, with a supportedState of its own.
OwnState == [FreshState EXCEPT !.sharesDefault = FALSE]

SharedArgs ==
  {<<Me, t>> : t \in {PrefixOV, ChanModesBKL, Network, ChanTypes,
                       [param |-> "CASEMAPPING", value |-> "rfc1459"]}}

InitShared ==
  \E o \in Opts({FALSE}, {FALSE}, {NoWebirc}, {FALSE}, {0}, {Null}),
     st \in {FreshState, OwnState} :
    ConstructedOver(o, TRUE, "none", Hist0(1, 0, SharedLines), st)

NextShared ==
  \/ UserConnect(Null)
  \/ SockConnect
  \/ \E args \in SharedArgs : SockData(ISupport(args))
  \/ NewClient

SpecShared == InitShared /\ [][NextShared]_vars

\* state.supportedState of a client made without a state: the object
\* DefaultIrcSupported.
PeerSupported == defaultSupported

\* C39: two clients made without a state do not share ISUPPORT state: an
\* rpl_isupport line one client processes changes neither the supported
\* values of the other nor the defaults a client made afterwards finds.
C39_SupportedNotShared ==
  /\ peers > 0 => PeerSupported = hist.peerSaw
  /\ defaultSupported = DefaultIrcSupported

\* What holds of the code: the same for a client made with a state whose
\* supportedState is not DefaultIrcSupported.
SupportedNotSharedWithOwnState ==
  ~sharesDefault =>
    /\ peers > 0 => PeerSupported = hist.peerSaw
    /\ defaultSupported = DefaultIrcSupported

\* The second client was made with the defaults, and the CASEMAPPING of
\* the first client's server is now its casemapping.
PeerTookCasemapping ==
  /\ peers = 1
  /\ hist.peerSaw = DefaultIrcSupported
  /\ PeerSupported.casemapping = "rfc1459"
  /\ step.op = "data"

\* A client made after the first client's CHANMODES line starts with that
\* server's channel modes.
LateClientTookModes ==
  /\ peers = 1
  /\ step.op = "newClient"
  /\ hist.peerSaw.modes.d = <<"m", "n">>
(***************************************************************************)
(* SpecKill: the client, u and v join #c and #D in any order, and the      *)
(* server sends KILL for v, from u or with no prefix nick.                 *)
(***************************************************************************)
KillLines == 5

KillMessages ==
  {Msg("JOIN", n, <<ch>>) : n \in {Me, U, V}, ch \in {ChanC, ChanD}}
    \cup {Msg("KILL", k, <<V, <<"r">>>>) : k \in {U, NoNick}}

InitKill ==
  \E o \in Opts({FALSE}, {FALSE}, {NoWebirc}, {FALSE}, {0}, {Null}) :
    Constructed(o, TRUE, "none", Hist0(1, 0, KillLines))

NextKill ==
  \/ UserConnect(Null)
  \/ SockConnect
  \/ \E msg \in KillMessages : SockData(msg)

SpecKill == InitKill /\ [][NextKill]_vars

\* The step processes a KILL line.
KillStep ==
  /\ step'.op = "data"
  /\ step'.msg.command = "KILL"
  /\ hist'.linesLeft < hist.linesLeft

\* The channels that have nick among their users.
ChannelsOf(cs, nick) == {k \in DOMAIN cs : nick \in DOMAIN cs[k].users}

\* C40: after a KILL whose first argument is V, V is in no channel's users,
\* the channel list of the kill event is the set of channels V was in, and
\* the nick of the prefix, the killer, is removed from no channel.
C40_KillRemovesTarget ==
  [][KillStep =>
       /\ ChannelsOf(chans', Arg(step'.msg, 0)) = {}
       /\ emits' = <<[name |-> "kill",
                      arg |-> <<Arg(step'.msg, 0),
                                ChannelsOf(chans, Arg(step'.msg, 0))>>]>>
       /\ step'.msg.nick # Arg(step'.msg, 0)
            => ChannelsOf(chans', step'.msg.nick) = ChannelsOf(chans, step'.msg.nick)]_vars

\* What holds of the code: the nick of the prefix is removed from every
\* channel, the event lists the channels that nick was in, and the target
\* stays where it was.
KillRemovesSender ==
  [][KillStep =>
       /\ ChannelsOf(chans', step'.msg.nick) = {}
       /\ emits' = <<[name |-> "kill",
                      arg |-> <<Arg(step'.msg, 0),
                                ChannelsOf(chans, step'.msg.nick)>>]>>
       /\ step'.msg.nick # Arg(step'.msg, 0)
            => ChannelsOf(chans', Arg(step'.msg, 0)) = ChannelsOf(chans, Arg(step'.msg, 0))]_vars

\* u killed v while both were in #c: u is gone from #c, v is still there,
\* and the event lists #c.
KillerRemoved ==
  /\ step.op = "data" /\ step.msg = Msg("KILL", U, <<V, <<"r">>>>)
  /\ ChanC \in DOMAIN chans
  /\ V \in DOMAIN chans[ChanC].users
  /\ U \notin DOMAIN chans[ChanC].users
  /\ Emitted("kill", <<V, {ChanC}>>)
====
